---- MODULE Spec2Model ----
(***************************************************************************)
(* Model of the event cache (app/services/redis_cache.py), of the events   *)
(* read path (app/services/events_cache.py) and of the similarity services *)
(* (app/services/enhanced_similarity.py, similarity.py, embedding.py) with *)
(* the routes that call them (app/api/routes/events.py), of the cached     *)
(* aggregates of events_cache.py, of the background jobs of                *)
(* app/api/routes/etl.py and of the batches of                             *)
(* app/utils/batch_processing.py.                                          *)
(*                                                                         *)
(* Encoding of Python values:                                              *)
(*   - a dict is a function from field names to values; a missing field is *)
(*     a field outside its DOMAIN (dict.get(f, d) is Get(e, f, d));        *)
(*   - an event id (a str) is a positive integer, None is NoneId = 0;      *)
(*   - a `start` value is a tuple of integers:                             *)
(*       <<>>                None                                          *)
(*       <<h>>               a datetime object, h hours after the epoch    *)
(*       <<date, sep, hour>> the string "YYYY-MM-DD" sep "HH:00:00+00:00", *)
(*                           sep the character code of ' ' or 'T';         *)
(*     tuples of this last form compare lexicographically exactly as the   *)
(*     strings they stand for;                                             *)
(*   - an Optional value is a sequence of length 0 (None) or 1.            *)
(***************************************************************************)
EXTENDS Integers, Sequences, FiniteSets, TLC

VARIABLES
    now,      \* the UTC clock, in hours since the epoch
    redis,    \* the Redis server: key -> [value, expire_at]; DOMAIN = existing keys
    last,     \* the most recent add_events_to_cache call and what it saw
    calls,    \* add_events_to_cache calls made so far
    proc,     \* per server process: the add_events_to_cache call in progress
    writes,   \* the processes whose setex has reached Redis, in order
    store,    \* the events table: the ids of its rows (Row gives a row's columns)
    runs,     \* ETL jobs run so far
    served,   \* listEvents requests started so far
    req,      \* the listEvents request in progress
    table,    \* the events table as similarity and aggregate queries read it
    pairs,    \* the event_similarities table: a sequence of rows
    sim,      \* the similarity operation in progress and its outcome
    utc,      \* the UTC clock of the aggregate requests, in minutes
    aggs,     \* the Redis keys of the aggregates: key -> [value, expire_at]
    agg,      \* the aggregate request just served and the miss before it
    jobs,     \* etl_status_store: job id -> status record
    tasks,    \* the background tasks: job id -> where the task is
    poll,     \* the last answer of GET /etl/status/{job_id}
    db,       \* the events table as the ETL session commits it: rows [id, payload]
    etl,      \* the process_events_batch call in progress
    fetch,    \* the fetch_all_events_paginated call in progress
    deleted,  \* the ids that DELETE /events/{id} has removed from the store
    sched,    \* the ETLScheduler: its flag, its loop tasks, the calls in progress
    pine,     \* the PineconeSyncScheduler: its counters and the runs attempted
    popular   \* a day's events and the popular events computed from them

vars ==
    <<now, redis, last, calls, proc, writes, store, runs, served, req, table, pairs, sim,
      utc, aggs, agg, jobs, tasks, poll, db, etl,
      fetch, deleted, sched, pine, popular>>

simVars == <<table, pairs, sim>>

aggVars == <<utc, aggs, agg>>

jobVars == <<jobs, tasks, poll>>

batchVars == <<db, etl>>

tailVars == <<fetch, deleted, sched, pine, popular>>

restVars == <<aggVars, jobVars, batchVars, tailVars>>

readVars == <<store, runs, served, req, simVars, restVars>>

(***************************** bounds *************************************)
MaxClock == 24          \* the clock stops here
TickHours == 12         \* granularity of the clock
NumIds == 2             \* event ids 1..NumIds in the merge specifications
MaxLen == 2             \* longest new_events list handed to a merge
MaxCalls == 3           \* add_events_to_cache calls in one behaviour
NumEvents == 150        \* the feed holds events 1..NumEvents
MaxRuns == 1            \* ETL jobs in one behaviour
MaxServed == 2          \* listEvents requests in one behaviour
UtcStart == 2895        \* the aggregate specification starts at 48:15
AggTick == 30           \* its clock moves by this many minutes
MaxUtcTicks == 2        \* this many times
MaxAggCalls == 3        \* aggregate requests in one behaviour
MaxInserts == 1         \* events committed while aggregates are served
MaxJobs == 1            \* background jobs triggered in one behaviour
MaxProcessed == 2       \* events one ETL job processes
NumRaw == 5             \* raw events one process_events_batch call is given
batch_size == 2         \* settings.batch_size, 50 in the configuration

(************************** program constants *****************************)
HoursPerDay == 24
ttl_seconds == 24       \* 24 * 60 * 60 seconds, in hours
SpaceChar == 32         \* ord(' '), the separator str(datetime) writes
TChar == 84             \* ord('T'), the separator datetime.isoformat() writes
NoneId == 0
min_cache_threshold == 100

Days == 0..(MaxClock \div HoursPerDay)

NullStartId == NumEvents + 1

Get(e, f, d) == IF f \in DOMAIN e THEN e[f] ELSE d

(************************ datetime <-> string *****************************)
\* str(datetime): "YYYY-MM-DD HH:MM:SS+00:00"
str_datetime(dt) == <<dt[1] \div HoursPerDay, SpaceChar, dt[1] % HoursPerDay>>

\* datetime.isoformat(): "YYYY-MM-DDTHH:MM:SS+00:00"
isoformat(dt) == <<dt[1] \div HoursPerDay, TChar, dt[1] % HoursPerDay>>

\* datetime.fromisoformat accepts either separator
fromisoformat(s) == <<s[1] * HoursPerDay + s[3]>>

\* json.dumps(..., default=str) followed by json.loads, on one value of a
\* `start` field: a datetime goes through str(), None and strings are kept.
json_value(v) == IF Len(v) = 1 THEN str_datetime(v) ELSE v

json_event(e) ==
    [f \in DOMAIN e |-> IF f \in {"start"} THEN json_value(e[f]) ELSE e[f]]

json_events(es) == [i \in 1..Len(es) |-> json_event(es[i])]

(****************************** RedisCacheService *************************)
get_daily_cache_key(date) == date \div HoursPerDay

\* redis_client.get(key): the stored value, or None
redis_get(key) == IF key \in DOMAIN redis THEN <<redis[key].value>> ELSE <<>>

\* Mutant of redis_setex: the TTL is set when the key is created only.
redis_set_keepttl(key, ttl, value) ==
    [k \in DOMAIN redis \cup {key} |->
        IF k = key
        THEN [value |-> value,
              expire_at |-> IF key \in DOMAIN redis THEN redis[key].expire_at ELSE now + ttl]
        ELSE redis[k]]

\* redis_client.setex(key, ttl, value)
redis_setex(key, ttl, value) ==
    [k \in DOMAIN redis \cup {key} |->
        IF k = key THEN [value |-> value, expire_at |-> now + ttl] ELSE redis[k]]

\* seconds the key has left (redis_client.ttl)
redis_ttl(key) == redis[key].expire_at - now

EventIds(events) == {Get(events[i], "id", NoneId) : i \in 1..Len(events)}

\* Mutants of merge_all_events: no filtering of ids already stored; the new
\* content replacing a stored event of the same id; the new list replacing
\* the stored one.
merge_no_filter(existing_data, new_events) ==
    IF existing_data # <<>>
    THEN Get(existing_data[1], "events", <<>>) \o new_events
    ELSE new_events

merge_upsert(existing_data, new_events) ==
    IF existing_data # <<>>
    THEN LET existing_events == Get(existing_data[1], "events", <<>>)
             Newer(e) == {i \in 1..Len(new_events) :
                             Get(new_events[i], "id", NoneId) = Get(e, "id", NoneId)}
         IN  [i \in 1..Len(existing_events) |->
                 IF Newer(existing_events[i]) # {}
                 THEN new_events[CHOOSE n \in Newer(existing_events[i]) : TRUE]
                 ELSE existing_events[i]]
             \o SelectSeq(new_events,
                          LAMBDA event : Get(event, "id", NoneId) \notin EventIds(existing_events))
    ELSE new_events

merge_replace(existing_data, new_events) == new_events

\* lines 43-64: the list written back, from what redis_client.get returned
\* (existing_data, an Optional) and the caller's new_events
merge_all_events(existing_data, new_events) ==
    IF existing_data # <<>>
    THEN LET existing_events == Get(existing_data[1], "events", <<>>)
             existing_event_ids == EventIds(existing_events)
             unique_new_events ==
                 SelectSeq(new_events,
                           LAMBDA event : Get(event, "id", NoneId) \notin existing_event_ids)
         IN  existing_events \o unique_new_events
    ELSE new_events

\* lines 66-78: the value stored, as json.loads would read it back
cache_data(all_events) ==
    [events |-> json_events(all_events),
     last_updated |-> now,
     total_events |-> Len(all_events)]

(*************************** input universe *******************************)
\* The upstream feed and the store hold events 1..n; event i has these
\* attributes.
\* A str that the code inspects (location) is a sequence of characters;
\* '' is <<>>.
CategoryOf(i) == IF i % 2 = 0 THEN "music" ELSE "sports"
LocationOf(i) == IF i % 3 = 0 THEN <<"P", "a", "r", "i", "s">> ELSE <<"R", "o", "m", "e">>
CityOf(i) == IF i % 3 = 0 THEN "Paris" ELSE "Rome"
StartOf(i) == <<i>>
AttendanceOf(i) == 10 * i

\* what PredictHQService.parse_event_data returns for event i (the fields
\* title, description, longitude, latitude, end are carried like category;
\* spend_amount and region like attendance and city)
ParsedEvent(i) ==
    [id |-> i, category |-> CategoryOf(i), location |-> LocationOf(i),
     start |-> StartOf(i), attendance |-> AttendanceOf(i), city |-> CityOf(i)]

\* The events table holds event i as row i with the columns the ETL wrote;
\* NullStartId is the row POST /events creates for an event sent without a
\* start (EventCreate.start is Optional).
RowStart(i) == IF i = NullStartId THEN <<>> ELSE StartOf(i)

\* EventResponse.from_orm(row i)
from_orm(i) ==
    [id |-> i, category |-> CategoryOf(i), location |-> LocationOf(i),
     start |-> RowStart(i), related_event_ids |-> <<>>,
     attendance |-> AttendanceOf(i), city |-> CityOf(i)]

\* lines 179-190 of _update_cache_from_db_events: the dict built for one
\* EventResponse
BackfillDict(event) ==
    [id |-> event.id, category |-> event.category,
     start |-> IF event.start # <<>> THEN isoformat(event.start) ELSE <<>>,
     location |-> event.location,
     related_event_ids |-> event.related_event_ids]

\* Mutant of backfill_dicts: only the first event of the page is converted.
backfill_dicts_first(db_events) ==
    IF db_events = <<>> THEN <<>> ELSE <<BackfillDict(db_events[1])>>

\* the list events_data of _update_cache_from_db_events
backfill_dicts(db_events) == [k \in 1..Len(db_events) |-> BackfillDict(db_events[k])]

InputDicts ==
    {ParsedEvent(i) : i \in 1..NumIds} \cup {BackfillDict(from_orm(i)) : i \in 1..NumIds}

InputLists == UNION {[1..n -> InputDicts] : n \in 0..MaxLen}

(************************* similarity: the data ****************************)
\* An embedding is a tuple of integers; the column holds <<vector>> or <<>>
\* for NULL. A cosine similarity is a number of hundredths (70 is 0.7),
\* rounded towards zero.
Dimension == 2          \* settings.embedding_dimension in the model
NaN == 1000000          \* a component that is NaN
Inf == 2000000          \* a component that is infinite

\* a vector of the configured dimension with the first two components given
Vec(a, b) == [i \in 1..Dimension |-> IF i = 1 THEN a ELSE IF i = 2 THEN b ELSE 0]

\* [0.1] * self.dimension, in the unit of the other vectors
Sentinel == [i \in 1..Dimension |-> 1]

\* The rows of the events table that similarity requests see: embeddings
\* (NULL for row 4, rows 3 and 6 alike) and related_event_ids, the
\* comma-separated string as the sequence of its pieces (0 a blank piece).
EventRows ==
    [i \in 1..9 |->
        [id |-> i,
         embeddings |-> CASE i = 1 -> <<Vec(3, 4)>>
                          [] i = 2 -> <<Vec(4, 3)>>
                          [] i = 3 -> <<Vec(5, 0)>>
                          [] i = 4 -> <<>>
                          [] i = 5 -> <<Vec(0, 5)>>
                          [] i = 6 -> <<Vec(5, 0)>>
                          [] i = 7 -> <<Vec(1, 1)>>
                          [] i = 8 -> <<Vec(2, 1)>>
                          [] OTHER -> <<Vec(1, 2)>>,
         related_event_ids |-> CASE i = 1 -> <<7, 0, 4>>
                                 [] i = 3 -> <<5>>
                                 [] OTHER -> <<>>]]

\* event_similarities rows written by the batch job
SimilarityRows ==
    <<[event_id_1 |-> 1, event_id_2 |-> 3, similarity_score |-> 60,
       relationship_type |-> "similar"],
      [event_id_1 |-> 9, event_id_2 |-> 1, similarity_score |-> 80,
       relationship_type |-> "related"],
      [event_id_1 |-> 2, event_id_2 |-> 3, similarity_score |-> 80,
       relationship_type |-> "similar"]>>

IdleSim ==
    [pc |-> "idle", op |-> "none", event_id |-> 0, query_text |-> <<>>,
     limit |-> 0, min_similarity |-> 0, include_related |-> FALSE,
     provider |-> <<>>, called |-> FALSE, query |-> <<>>, native |-> "none",
     manual |-> "none", loaded |-> <<>>, results |-> <<>>, vector |-> <<>>,
     related |-> <<>>, stored |-> <<>>, other |-> <<>>, similarity |-> 0,
     outcome |-> "none", query_event |-> 0,
     similar_events |-> <<>>, total_found |-> 0]

\* no similarity operation in the cache and read-path specifications
NoSimilarity == table = EventRows /\ pairs = SimilarityRows /\ sim = IdleSim

(******************** aggregates, jobs, batches: the data ******************)
\* The rows of the events table that the aggregates read, in the order in
\* which they come into the table: region (" " a blank one), attendance
\* (<<>>: NULL), start (a datetime, whole hours) and the length of the event
\* in hours.
CityRows ==
    <<[id |-> 1, region |-> "Paris", attendance |-> <<100>>, start |-> <<47>>, hours |-> 2],
      [id |-> 2, region |-> "Rome", attendance |-> <<500>>, start |-> <<45>>, hours |-> 5],
      [id |-> 3, region |-> "Paris", attendance |-> <<>>, start |-> <<40>>, hours |-> 1],
      [id |-> 4, region |-> " ", attendance |-> <<900>>, start |-> <<46>>, hours |-> 3],
      [id |-> 5, region |-> "Rome", attendance |-> <<20>>, start |-> <<24>>, hours |-> 4],
      [id |-> 6, region |-> "Paris", attendance |-> <<450>>, start |-> <<48>>, hours |-> 1],
      [id |-> 7, region |-> "Oslo", attendance |-> <<700>>, start |-> <<30>>, hours |-> 6]>>

IdleAgg ==
    [pc |-> "idle", op |-> "none", key |-> <<>>, at |-> 0, get_raised |-> FALSE,
     setex_raised |-> FALSE, bucket_faults |-> {}, hit |-> FALSE, queried |-> FALSE,
     outcome |-> "none", result |-> <<>>, prior |-> <<>>, cached |-> <<>>, calls |-> 0]

NoAggregates == utc = 0 /\ aggs = <<>> /\ agg = IdleAgg

NoPoll == [pc |-> "idle", job_id |-> 0, code |-> 0, body |-> <<>>]

NoJobs == jobs = <<>> /\ tasks = <<>> /\ poll = NoPoll

\* the AsyncSession of a job: the objects added and the loaded ones changed
NoSession == [new |-> <<>>, dirty |-> {}]

NoStats == [processed |-> 0, created |-> 0, updated |-> 0, errors |-> 0]

IdleEtl ==
    [pc |-> "idle", raw_events |-> <<>>, i |-> 0, session |-> NoSession,
     stats |-> NoStats, log |-> <<>>]

NoBatches == db = {} /\ etl = IdleEtl

IdleFetch ==
    [pc |-> "idle", max_events |-> 0, page |-> 0, all_events |-> 0,
     total_fetched |-> 0, stopped |-> "none"]

\* ETLScheduler after __init__: is_running, current_task (0: None), the loop
\* tasks that asyncio.create_task has made, the tasks that calls of
\* stop_hourly_etl are awaiting, and the history of the calls: triggers
\* counts the POSTs of _trigger_etl_via_api, stopped holds from the effect of
\* a stop until the next call of start, refused that a start found the
\* scheduler running, second that such a start made a task, late that a POST
\* went out while stopped.
NoSched ==
    [is_running |-> FALSE, current_task |-> 0, tasks |-> <<>>, stops |-> {},
     triggers |-> 0, stopped |-> FALSE, refused |-> FALSE, second |-> FALSE,
     late |-> FALSE]

\* PineconeSyncScheduler after __init__: is_running, the loop task (pc
\* "none": no task), sync_count and error_count, and the history: the runs
\* that ended well and those that raised, that a start found the scheduler
\* running, and the last answer of get_status (<<>>: none yet).
NoPine ==
    [is_running |-> FALSE, pc |-> "none", sync_count |-> 0, error_count |-> 0,
     succeeded |-> 0, failed |-> 0, refused |-> FALSE, status |-> <<>>]

NoPopular == [pc |-> "idle", rows |-> <<>>, result |-> <<>>]

NoTail ==
    /\ fetch = IdleFetch
    /\ deleted = {}
    /\ sched = NoSched
    /\ pine = NoPine
    /\ popular = NoPopular

NoRest == NoAggregates /\ NoJobs /\ NoBatches /\ NoTail

(********************* the cache service, one process *********************)
NoLast ==
    [key |-> 0, new_events |-> <<>>, ok |-> FALSE, before |-> <<>>,
     before_ttl |-> 0, at |-> 0, again |-> FALSE]

NoProc == [pc |-> "idle", new_events |-> <<>>, existing_data |-> <<>>]

IdleReq ==
    [pc |-> "idle", skip |-> 0, limit |-> 0, category |-> <<>>,
     location_query |-> <<>>, key0 |-> 0, held |-> 0, read |-> 0, faults |-> {},
     path |-> "none", db |-> <<>>, before_ids |-> {}, backfill |-> "none",
     result |-> <<>>, error |-> "none"]

Faults == {"none", "get", "setex"}

\* the steps of a merge that may raise: the two Redis commands, json.loads
\* of the stored value and json.dumps of the new one
MergeFaults == Faults \cup {"loads", "dumps"}

\* whether a call with this fault raises inside its try: json.loads runs
\* only when the key holds a value
merge_raises(cache_key, fault) ==
    \/ fault \in {"get", "dumps", "setex"}
    \/ fault = "loads" /\ redis_get(cache_key) # <<>>

\* Mutant of add_events_to_cache: the entry is written before the failure.
add_events_to_cache_written(cache_key, new_events, fault) ==
    redis_setex(cache_key, ttl_seconds,
                cache_data(merge_all_events(redis_get(cache_key), new_events)))

\* add_events_to_cache(cache_key, new_events). The body has no await between
\* redis_client.get and redis_client.setex, so inside one event loop the call
\* is one step. fault: the step that raises, if any; the except clause turns
\* every exception into the return value False, and a command that raised
\* has changed nothing.
add_events_to_cache(cache_key, new_events, fault) ==
    LET existing_data == redis_get(cache_key)
        all_events == merge_all_events(existing_data, new_events)
    IN  IF ~merge_raises(cache_key, fault)
        THEN redis_setex(cache_key, ttl_seconds, cache_data(all_events))
        ELSE redis

\* the call together with the record of what it was given and what it saw
AddEventsToCache(cache_key, new_events, fault) ==
    LET existing_data == redis_get(cache_key)
        ok == ~merge_raises(cache_key, fault)
    IN  /\ redis' = add_events_to_cache(cache_key, new_events, fault)
        /\ last' = [key |-> cache_key, new_events |-> new_events, ok |-> ok,
                    before |-> existing_data,
                    before_ttl |-> IF cache_key \in DOMAIN redis
                                   THEN redis_ttl(cache_key) ELSE 0,
                    at |-> now,
                    again |-> /\ last.ok
                              /\ last.key = cache_key
                              /\ last.new_events = new_events
                              /\ cache_key \in DOMAIN redis]

\* Both callers (the ETL job and the read path's backfill) pass the day key
\* of the current UTC date.
Merge ==
    /\ calls < MaxCalls
    /\ calls' = calls + 1
    /\ \E new_events \in InputLists, fault \in MergeFaults :
            AddEventsToCache(get_daily_cache_key(now), new_events, fault)
    /\ UNCHANGED <<now, proc, writes, readVars>>

\* Time passes; Redis drops the keys whose TTL has run out.
Expire(t) == [k \in {k \in DOMAIN redis : redis[k].expire_at > t} |-> redis[k]]

Tick ==
    /\ now + TickHours <= MaxClock
    /\ now' = now + TickHours
    /\ redis' = Expire(now + TickHours)
    /\ UNCHANGED <<last, calls, proc, writes, readVars>>

EmptyRedis == [k \in {} |-> 0]

InitMerge ==
    /\ now = 0
    /\ redis = EmptyRedis
    /\ last = NoLast
    /\ calls = 0
    /\ proc = [p \in {} |-> NoProc]
    /\ writes = <<>>
    /\ store = {}
    /\ runs = 0
    /\ served = 0
    /\ req = IdleReq
    /\ NoSimilarity
    /\ NoRest

NextMerge == Merge \/ Tick

SpecMerge == InitMerge /\ [][NextMerge]_vars

StoredEvents(key) == redis[key].value.events

BeforeEvents == IF last.before = <<>> THEN <<>> ELSE last.before[1].events

\* C1: a merge that repeats the preceding successful merge (same key, same
\* list, the entry still there) leaves the stored event list, and so the set
\* of stored ids, as the first call left it: the second call appends nothing.
MergeTwiceSameAsOnce ==
    (last.again /\ last.key \in DOMAIN redis) =>
        /\ StoredEvents(last.key) = BeforeEvents
        /\ EventIds(StoredEvents(last.key)) = EventIds(BeforeEvents)

\* a repeated merge of a non-empty list succeeded
MergeTwiceWitness ==
    /\ last.again /\ last.ok /\ last.key \in DOMAIN redis
    /\ last.new_events # <<>>

\* C2: no event list stored under a key holds two entries with the same id.
NoDuplicateIds ==
    \A key \in DOMAIN redis :
        \A i, j \in 1..Len(StoredEvents(key)) :
            i # j => Get(StoredEvents(key)[i], "id", NoneId)
                       # Get(StoredEvents(key)[j], "id", NoneId)

\* C4: right after a successful merge the key's remaining TTL is the full
\* configured TTL, whatever was left before.
TtlRefreshed ==
    (last.ok /\ last.at = now) =>
        /\ last.key \in DOMAIN redis
        /\ redis_ttl(last.key) = ttl_seconds

\* a successful merge extended an entry that had less than the full TTL left
TtlRefreshedWitness ==
    /\ last.ok /\ last.at = now
    /\ last.before # <<>>
    /\ last.before_ttl < ttl_seconds

\* C30: a merge that returned False (the value of its except clause, which
\* every failing step reaches) has left the key as it found it: absent if it
\* was absent, else with the same value (event list and metadata) and the
\* same remaining TTL.
FailedMergeChangesNothing ==
    (calls > 0 /\ ~last.ok /\ last.at = now) =>
        IF last.before = <<>>
        THEN last.key \notin DOMAIN redis
        ELSE /\ last.key \in DOMAIN redis
             /\ redis[last.key].value = last.before[1]
             /\ redis_ttl(last.key) = last.before_ttl

\* a merge failed that had events to add to an entry with less than the
\* full TTL left
FailedMergeChangesNothingWitness ==
    /\ calls > 0 /\ ~last.ok /\ last.at = now
    /\ last.before # <<>>
    /\ last.before_ttl < ttl_seconds
    /\ EventIds(last.new_events) \ EventIds(last.before[1].events) # {}

\* C5: a successful merge keeps every stored event at its position with its
\* content, stores every id of new_events, and writes total_events equal to
\* the length of the stored list.
MergePreserves ==
    (last.ok /\ last.key \in DOMAIN redis) =>
        LET after == redis[last.key].value
        IN  /\ Len(after.events) >= Len(BeforeEvents)
            /\ SubSeq(after.events, 1, Len(BeforeEvents)) = BeforeEvents
            /\ EventIds(last.new_events) \subseteq EventIds(after.events)
            /\ after.total_events = Len(after.events)

\* a successful merge onto an entry, carrying a stored id with other content
\* and an id not stored yet
MergePreservesWitness ==
    /\ last.ok /\ last.key \in DOMAIN redis /\ last.before # <<>>
    /\ \E i \in 1..Len(last.new_events) :
            /\ last.new_events[i].id \in EventIds(BeforeEvents)
            /\ \A j \in 1..Len(BeforeEvents) :
                   BeforeEvents[j] # json_event(last.new_events[i])
    /\ \E i \in 1..Len(last.new_events) :
            last.new_events[i].id \notin EventIds(BeforeEvents)

(****************** the cache service, two processes **********************)
\* Redis is a server shared by every process of the application. get (line
\* 41) and setex (line 74) are two commands with no transaction around them,
\* so the commands of two processes interleave freely.
Procs == {1, 2}

Other(p) == CHOOSE q \in Procs : q # p

RaceRead(p) ==
    /\ proc[p].pc = "idle"
    /\ \E new_events \in InputLists, fault \in {"none", "get"} :
          proc' = [proc EXCEPT ![p] =
                     [pc |-> IF fault = "none" THEN "read" ELSE "failed",
                      new_events |-> new_events,
                      existing_data |-> IF fault = "none"
                                        THEN redis_get(get_daily_cache_key(now))
                                        ELSE <<>>,
                      saw |-> writes]]
    /\ UNCHANGED <<now, redis, last, calls, writes, readVars>>

RaceWrite(p) ==
    /\ proc[p].pc = "read"
    /\ \E fault \in {"none", "setex"} :
          IF fault = "none"
          THEN /\ redis' = redis_setex(get_daily_cache_key(now), ttl_seconds,
                                cache_data(merge_all_events(proc[p].existing_data,
                                                            proc[p].new_events)))
               /\ proc' = [proc EXCEPT ![p].pc = "done"]
               /\ writes' = Append(writes, p)
          ELSE /\ proc' = [proc EXCEPT ![p].pc = "failed"]
               /\ UNCHANGED <<redis, writes>>
    /\ UNCHANGED <<now, last, calls, readVars>>

\* the entry an earlier merge of one parsed event left
SeededRedis ==
    [k \in {0} |->
        [value |-> [events |-> json_events(<<ParsedEvent(1)>>),
                    last_updated |-> 0, total_events |-> 1],
         expire_at |-> ttl_seconds]]

InitRace ==
    /\ now = 0
    /\ redis \in {EmptyRedis, SeededRedis}
    /\ last = NoLast
    /\ calls = 0
    /\ proc = [p \in Procs |-> [pc |-> "idle", new_events |-> <<>>,
                                 existing_data |-> <<>>, saw |-> <<>>]]
    /\ writes = <<>>
    /\ store = {}
    /\ runs = 0
    /\ served = 0
    /\ req = IdleReq
    /\ NoSimilarity
    /\ NoRest

NextRace == \E p \in Procs : RaceRead(p) \/ RaceWrite(p)

SpecRace == InitRace /\ [][NextRace]_vars

BothDone == \A p \in Procs : proc[p].pc = "done"

DistinctNewIds ==
    /\ \A p \in Procs : proc[p].new_events # <<>>
    /\ EventIds(proc[1].new_events) \cap EventIds(proc[2].new_events) = {}

\* each call read before the other call wrote
Overlapped == \A p \in Procs : proc[p].saw = <<>>

FinalIds == EventIds(StoredEvents(get_daily_cache_key(now)))

\* C3 as claimed: two merges with different new ids whose read and write
\* steps overlap both end up in the stored entry.
NoIdLostInRace ==
    (BothDone /\ DistinctNewIds /\ Overlapped) =>
        \A p \in Procs : EventIds(proc[p].new_events) \subseteq FinalIds

\* C3 amended: the stored entry is what the last writer read plus its new
\* events. It holds the last writer's new ids always, the other call's new
\* ids when the last writer read after the other call's write, and, when the
\* two calls overlapped, none of the other call's ids that the last writer
\* neither read nor carried.
LastWriterWins ==
    BothDone =>
        LET w == writes[2]
            f == writes[1]
            read == IF proc[w].existing_data = <<>> THEN <<>>
                    ELSE proc[w].existing_data[1].events
        IN  /\ EventIds(proc[w].new_events) \subseteq FinalIds
            /\ proc[w].saw = <<f>> =>
                   EventIds(proc[f].new_events) \subseteq FinalIds
            /\ proc[w].saw = <<>> =>
                   FinalIds = EventIds(read) \cup EventIds(proc[w].new_events)

\* two overlapping merges with different new ids, the first writer's lost
LastWriterWinsWitness ==
    /\ BothDone /\ DistinctNewIds /\ Overlapped
    /\ EventIds(proc[writes[1]].new_events) \cap FinalIds = {}

(****************************** str helpers *******************************)
UpperCase ==
    <<"A", "B", "C", "D", "E", "F", "G", "H", "I", "J", "K", "L", "M",
      "N", "O", "P", "Q", "R", "S", "T", "U", "V", "W", "X", "Y", "Z">>
LowerCase ==
    <<"a", "b", "c", "d", "e", "f", "g", "h", "i", "j", "k", "l", "m",
      "n", "o", "p", "q", "r", "s", "t", "u", "v", "w", "x", "y", "z">>

lower_char(c) ==
    IF \E k \in 1..Len(UpperCase) : UpperCase[k] = c
    THEN LowerCase[CHOOSE k \in 1..Len(UpperCase) : UpperCase[k] = c]
    ELSE c

\* str.lower()
lower(str) == [i \in 1..Len(str) |-> lower_char(str[i])]

\* sub in str
contains(str, sub) ==
    \E k \in 0..(Len(str) - Len(sub)) : SubSeq(str, k + 1, k + Len(sub)) = sub

\* the truth value of an Optional[str] argument: neither None nor '' (the
\* model writes '' as "" for category and as <<>> for a location)
truthy(arg, empty) == arg # <<>> /\ arg[1] # empty

\* seq[skip:skip + limit]
slice(seq, skip, limit) ==
    IF skip >= Len(seq) THEN <<>>
    ELSE SubSeq(seq, skip + 1, IF skip + limit < Len(seq) THEN skip + limit ELSE Len(seq))

(****************************** EventsCacheService ************************)
\* the str '' that x.get('start', '') gives for a dict without the field:
\* it sorts before every date string
EmptyStr == <<-1, 0, 0>>

\* a < b on two strings "YYYY-MM-DD?HH:00:00+00:00"
str_less(a, b) ==
    \/ a[1] < b[1]
    \/ a[1] = b[1] /\ a[2] < b[2]
    \/ a[1] = b[1] /\ a[2] = b[2] /\ a[3] < b[3]

sort_key(x) == Get(x, "start", EmptyStr)

\* list.sort(key=..., reverse=True) is a stable sort: of two events with
\* equal keys the one that came first stays first.
\* Merging two sorted runs: the middle element of the left run goes after
\* the elements of the right run with a strictly greater key.
RECURSIVE merge_desc(_, _)
merge_desc(a, b) ==
    IF a = <<>> THEN b
    ELSE IF b = <<>> THEN a
    ELSE LET m == (Len(a) + 1) \div 2
             k == Cardinality({j \in 1..Len(b) :
                                  str_less(sort_key(a[m]), sort_key(b[j]))})
         IN  merge_desc(SubSeq(a, 1, m - 1), SubSeq(b, 1, k))
             \o <<a[m]>>
             \o merge_desc(SubSeq(a, m + 1, Len(a)), SubSeq(b, k + 1, Len(b)))

RECURSIVE sort_desc(_)
sort_desc(events) ==
    IF Len(events) <= 1 THEN events
    ELSE LET h == Len(events) \div 2
         IN  merge_desc(sort_desc(SubSeq(events, 1, h)),
                        sort_desc(SubSeq(events, h + 1, Len(events))))

\* filtered_events.sort(key=lambda x: x.get('start', ''), reverse=True).
\* Comparing None with a str or with None raises TypeError, and sorting two
\* or more keys compares every key at least once.
sort_by_start(filtered) ==
    IF Len(filtered) >= 2 /\ \E i \in 1..Len(filtered) : sort_key(filtered[i]) = <<>>
    THEN [error |-> "TypeError", events |-> <<>>]
    ELSE [error |-> "none", events |-> sort_desc(filtered)]

\* _filter_cached_events
filter_cached_events(events, category, location_query) ==
    LET by_category ==
            IF truthy(category, "")
            THEN SelectSeq(events, LAMBDA e : Get(e, "category", "") = category[1])
            ELSE events
        filtered ==
            IF truthy(location_query, <<>>)
            THEN SelectSeq(by_category,
                           LAMBDA e : contains(lower(Get(e, "location", <<>>)),
                                               lower(location_query[1])))
            ELSE by_category
    IN  sort_by_start(filtered)

\* _dict_to_event_response (created_at and updated_at, set to the time of
\* the call, are left out of the model's EventResponse)
dict_to_event_response(event_dict) ==
    [id |-> Get(event_dict, "id", NoneId),
     category |-> Get(event_dict, "category", ""),
     location |-> Get(event_dict, "location", <<>>),
     start |-> IF Get(event_dict, "start", <<>>) # <<>>
               THEN fromisoformat(event_dict.start) ELSE <<>>,
     related_event_ids |-> Get(event_dict, "related_event_ids", <<>>),
     attendance |-> Get(event_dict, "attendance", 0),
     city |-> Get(event_dict, "city", "")]

\* [self._dict_to_event_response(event) for event in paginated_events]
event_responses(paginated_events) ==
    [k \in 1..Len(paginated_events) |-> dict_to_event_response(paginated_events[k])]

\* lines 44-54: the answer built from the cached events
answer_from_cache(cached_events, skip, limit, category, location_query) ==
    LET filtered == filter_cached_events(cached_events, category, location_query)
    IN  [error |-> filtered.error,
         result |-> event_responses(slice(filtered.events, skip, limit))]

\* ORDER BY start DESC: PostgreSQL puts the rows without a start first
starts_not_before(i, j) ==
    \/ RowStart(i) = <<>>
    \/ RowStart(j) # <<>> /\ RowStart(i)[1] >= RowStart(j)[1]

order_by_start_desc(ids) ==
    LET rank == [i \in ids |->
                    Cardinality({j \in ids : j # i /\ starts_not_before(j, i)})]
    IN  [r \in 1..Cardinality(ids) |-> CHOOSE i \in ids : rank[i] = r - 1]

AllRowsByStartDesc == order_by_start_desc(1..NullStartId)

\* [EventResponse.from_orm(event) for event in result.scalars().all()]
scalars_all(page) == [k \in 1..Len(page) |-> from_orm(page[k])]

\* _fetch_from_database on the table `rows`
fetch_from_database(rows, skip, limit, category, location_query) ==
    LET matches(i) ==
            /\ i \in rows
            /\ truthy(category, "") => CategoryOf(i) = category[1]
            /\ truthy(location_query, <<>>) =>
                   contains(lower(LocationOf(i)), lower(location_query[1]))
    IN  scalars_all(slice(SelectSeq(AllRowsByStartDesc, matches), skip, limit))

\* Mutant of get_cached_events: a read that raises still yields the stored
\* events.
get_cached_events_unguarded(cache_key, raises) ==
    IF cache_key \notin DOMAIN redis THEN <<>>
    ELSE <<Get(redis[cache_key].value, "events", <<>>)>>

\* RedisCacheService.get_cached_events: None when the key is absent or the
\* read raises
get_cached_events(cache_key, raises) ==
    IF raises \/ cache_key \notin DOMAIN redis THEN <<>>
    ELSE <<Get(redis[cache_key].value, "events", <<>>)>>

\* lines 33-42: the events of today's and yesterday's key, as read
cache_keys(t) == <<get_daily_cache_key(t), get_daily_cache_key(t) - 1>>

\* Mutant of read_cached_events: today's key only.
read_today_only(keys, raises) ==
    LET got == get_cached_events(keys[1], raises[1])
    IN  IF got # <<>> THEN got[1] ELSE <<>>

read_cached_events(keys, raises) ==
    LET got(n) == get_cached_events(keys[n], raises[n])
        part(n) == IF got(n) # <<>> THEN got(n)[1] ELSE <<>>
    IN  part(1) \o part(2)

\* the requests clients send: skip, limit, category, location_query
Par == <<"P", "A", "R">>
Queries ==
    {<<0, 100, <<>>, <<>>>>, <<0, 50, <<>>, <<>>>>, <<10, 20, <<"music">>, <<Par>>>>,
     <<NumEvents + 50, 50, <<>>, <<>>>>}

\* get_cached_events_with_fallback up to its first await that suspends (the
\* store query): the cache reads do not suspend, so the cache path is one
\* step.
ListStart ==
    /\ req.pc = "idle"
    /\ served < MaxServed
    /\ served' = served + 1
    /\ \E query \in Queries, raises \in [1..2 -> BOOLEAN] :
          LET skip == query[1]
              limit == query[2]
              category == query[3]
              location_query == query[4]
              keys == cache_keys(now)
              cached_events == read_cached_events(keys, raises)
              asked == [IdleReq EXCEPT
                           !.skip = skip, !.limit = limit, !.category = category,
                           !.location_query = location_query, !.key0 = keys[1],
                           !.held = Len(read_cached_events(keys, [n \in 1..2 |-> FALSE])),
                           !.read = Len(cached_events),
                           !.faults = {n \in 1..2 : raises[n]}]
          IN  IF cached_events # <<>> /\ Len(cached_events) >= min_cache_threshold
              THEN \E answer \in {answer_from_cache(cached_events, skip, limit,
                                                      category, location_query)} :
                      req' = [asked EXCEPT
                                 !.pc = "done", !.path = "cache",
                                 !.error = answer.error, !.result = answer.result]
              ELSE req' = [asked EXCEPT !.pc = "query", !.path = "store"]
    /\ UNCHANGED <<now, redis, last, calls, proc, writes, store, runs,
                 simVars, restVars>>

\* Mutant of ListQuery: a store query that raises is answered with an empty
\* list.
ListQuerySwallowed ==
    /\ req.pc = "query"
    /\ \E raises \in BOOLEAN :
          req' = IF raises
                 THEN [req EXCEPT !.pc = "done"]
                 ELSE [req EXCEPT !.pc = "backfill",
                          !.db = <<fetch_from_database(store, req.skip, req.limit,
                                                       req.category, req.location_query)>>]
    /\ UNCHANGED <<now, redis, last, calls, proc, writes, store, runs, served,
                 simVars, restVars>>

\* await session.execute(query): the store answers, or raises; nothing
\* catches the exception
ListQuery ==
    /\ req.pc = "query"
    /\ \E raises \in BOOLEAN :
          req' = IF raises
                 THEN [req EXCEPT !.pc = "done", !.error = "StoreError"]
                 ELSE [req EXCEPT !.pc = "backfill",
                          !.db = <<fetch_from_database(store, req.skip, req.limit,
                                                       req.category, req.location_query)>>]
    /\ UNCHANGED <<now, redis, last, calls, proc, writes, store, runs, served,
                 simVars, restVars>>

\* lines 66-70 with _update_cache_from_db_events: the coroutine resumes with
\* db_events, backfills today's key (as computed at the start) and returns
ListBackfill ==
    /\ req.pc = "backfill"
    /\ \E fault \in Faults :
          LET db_events == req.db[1]
              events_data == backfill_dicts(db_events)
              update == db_events # <<>>
          IN  /\ redis' = IF update
                          THEN add_events_to_cache(req.key0, events_data, fault)
                          ELSE redis
              /\ req' = [req EXCEPT
                            !.pc = "done", !.result = db_events,
                            !.before_ids = IF req.key0 \in DOMAIN redis
                                           THEN EventIds(redis[req.key0].value.events)
                                           ELSE {},
                            !.backfill = IF ~update THEN "none"
                                         ELSE IF fault = "none" THEN "ok" ELSE "failed",
                            !.faults = IF update /\ fault # "none"
                                       THEN req.faults \cup {3} ELSE req.faults]
    /\ UNCHANGED <<now, last, calls, proc, writes, store, runs, served,
                 simVars, restVars>>

\* the response has gone to the caller
ListReturn ==
    /\ req.pc = "done"
    /\ req' = IdleReq
    /\ UNCHANGED <<now, redis, last, calls, proc, writes, store, runs, served,
                 simVars, restVars>>

(****************************** the environment ***************************)
\* The handler runs on the event loop and the Redis client is synchronous:
\* other work (ETL jobs, POST /events, the clock reaching the next half day)
\* happens between requests or while the handler awaits the store.
\* The pages an ETL job fetches: every third event of the feed, or all of it.
ChunkSmall == SelectSeq([i \in 1..NumEvents |-> i], LAMBDA i : i % 3 = 0)
ChunkAll == [i \in 1..NumEvents |-> i]
Chunks == {ChunkSmall, ChunkAll}

\* run_etl_pipeline: the batch processor commits the fetched events to the
\* store; with use_cache the parsed events are merged into today's key.
EtlRun ==
    /\ req.pc \in {"idle", "query"}
    /\ runs < MaxRuns
    /\ runs' = runs + 1
    /\ \E chunk \in Chunks, use_cache \in BOOLEAN, fault \in Faults :
          LET parsed_events == [k \in 1..Len(chunk) |-> ParsedEvent(chunk[k])]
          IN  /\ store' = store \cup {chunk[k] : k \in 1..Len(chunk)}
              /\ redis' = IF use_cache
                          THEN add_events_to_cache(get_daily_cache_key(now),
                                                   parsed_events, fault)
                          ELSE redis
    /\ UNCHANGED <<now, last, calls, proc, writes, served, req,
                 simVars, restVars>>

\* POST /events with an event that has no start
CreateEvent ==
    /\ req.pc \in {"idle", "query"}
    /\ NullStartId \notin store
    /\ store' = store \cup {NullStartId}
    /\ UNCHANGED <<now, redis, last, calls, proc, writes, runs, served, req,
                 simVars, restVars>>

ListTick == req.pc \in {"idle", "query"} /\ Tick

\* The service starts with an empty cache, over a store that is empty or
\* holds the feed's events from earlier ETL jobs.
InitList ==
    /\ now = 0
    /\ redis = EmptyRedis
    /\ last = NoLast
    /\ calls = 0
    /\ proc = [p \in {} |-> NoProc]
    /\ writes = <<>>
    /\ store \in {{}, 1..NumEvents}
    /\ runs = 0
    /\ served = 0
    /\ req = IdleReq
    /\ NoSimilarity
    /\ NoRest

NextList ==
    \/ ListStart \/ ListQuery \/ ListBackfill \/ ListReturn
    \/ EtlRun \/ CreateEvent \/ ListTick

SpecList == InitList /\ [][NextList]_vars

\* DELETE /events/{event_id} for a stored event, between two listEvents
\* requests: the row is deleted and the session committed; the cache is not
\* touched. (An id that is not stored is answered 404 and changes nothing.)
DeleteIds == {NumEvents}

DeleteEvent ==
    /\ req.pc = "idle"
    /\ \E event_id \in DeleteIds \cap store :
          /\ store' = store \ {event_id}
          /\ deleted' = deleted \cup {event_id}
    /\ UNCHANGED <<now, redis, last, calls, proc, writes, runs, served, req,
                   simVars, aggVars, jobVars, batchVars, fetch, sched, pine, popular>>

\* listEvents, the ETL job and the deletions, within one half day
NextDelete ==
    \/ ListStart \/ ListQuery \/ ListBackfill \/ ListReturn
    \/ EtlRun
    \/ DeleteEvent

SpecDelete == InitList /\ [][NextDelete]_vars

(*************************** listEvents: properties ***********************)
Done == req.pc = "done"

\* the page the store yields for the arguments of the request
StorePage ==
    fetch_from_database(store, req.skip, req.limit, req.category, req.location_query)

StoredIds(key) == IF key \in DOMAIN redis THEN EventIds(StoredEvents(key)) ELSE {}

\* the number of records under the day key key0 and the key of the day
\* before, leaving out the n-th key for n in unread
Holding(key0, unread) ==
    LET records(n) ==
            IF (key0 + 1 - n) \in DOMAIN redis /\ n \notin unread
            THEN Len(Get(redis[key0 + 1 - n].value, "events", <<>>))
            ELSE 0
    IN  records(1) + records(2)

ListStarts == req.pc = "idle" /\ req'.pc # "idle"

\* C6 as stated: the request is answered from the cache exactly when the
\* lists cached under today's and yesterday's key together hold at least 100
\* records, otherwise it goes to the store; a request answered from the
\* cache neither queries the store nor writes the cache.
CacheIffHolding ==
    [][ListStarts =>
          /\ (req'.path = "cache") <=> (Holding(req'.key0, {}) >= min_cache_threshold)
          /\ req'.path = "cache" => req'.pc = "done" /\ req'.db = <<>> /\ redis' = redis
          /\ req'.path # "cache" => req'.pc = "query" /\ req'.path = "store"]_vars

\* C6, amended: the request is answered from the cache exactly when the
\* lists it could read (a key whose read raises counts as empty) together
\* hold at least 100 records, otherwise it goes to the store; a request
\* answered from the cache neither queries the store nor writes the cache.
CacheIffRead ==
    [][ListStarts =>
          /\ (req'.path = "cache") <=>
                 (Holding(req'.key0, req'.faults) >= min_cache_threshold)
          /\ req'.path = "cache" => req'.pc = "done" /\ req'.db = <<>> /\ redis' = redis
          /\ req'.path # "cache" => req'.pc = "query" /\ req'.path = "store"]_vars

\* a request answered from the cache although one key's read raised and the
\* other key held enough; and, in the same behaviour, the two keys held more
\* than was read
CacheIffReadWitness ==
    Done /\ req.path = "cache" /\ req.read >= min_cache_threshold /\ req.read < req.held

\* C7: a request answered from the cache returns the sequence of events
\* the store query returns for the same arguments: same ids, same order,
\* same field values.
CacheAnswerIsStoreAnswer ==
    Done /\ req.path = "cache" => req.error = "none" /\ req.result = StorePage

\* the consequent of C8: the ids of the page and the ids that were under the
\* key before are under the key, which holds at least as many events as the
\* page, and the page returned is the store's
PageStored ==
    /\ EventIds(req.result) \cup req.before_ids \subseteq StoredIds(req.key0)
    /\ req.key0 \in DOMAIN redis /\ Len(StoredEvents(req.key0)) >= Len(req.result)
    /\ req.result = StorePage

FellBack == Done /\ req.path = "store" /\ req.error = "none" /\ req.result # <<>>

\* C8 as stated: after a fallback to the store that returned a non-empty
\* page, every id of the page is under today's key together with the ids
\* that were there before, and the page returned is the store's.
FallbackStoresPage == FellBack => PageStored

\* C8, amended: that holds when the backfill's cache read and write succeed;
\* when one of them raises the key is left as it was, and the page returned
\* is the store's either way. Today's key is the key of the day on which the
\* request started.
FallbackStoresPageUnlessFault ==
    /\ FellBack /\ req.backfill = "ok" => PageStored
    /\ FellBack /\ req.backfill = "failed" =>
           StoredIds(req.key0) = req.before_ids /\ req.result = StorePage

\* a key holding 50 events and a store page of 100 events
FallbackStoresPageWitness ==
    /\ FellBack /\ req.backfill = "ok"
    /\ Cardinality(req.before_ids) = 50 /\ Len(req.result) = 100
    /\ Len(StoredEvents(req.key0)) >= 100

\* the cached events the request read, and those of them that pass the
\* filters of the request
CachedAsRead ==
    read_cached_events(<<req.key0, req.key0 - 1>>, [n \in 1..2 |-> n \in req.faults])

Passes(e) ==
    /\ truthy(req.category, "") => Get(e, "category", "") = req.category[1]
    /\ truthy(req.location_query, <<>>) =>
           contains(lower(Get(e, "location", <<>>)), lower(req.location_query[1]))

Matching == SelectSeq(CachedAsRead, Passes)

\* result is ordered by start descending
ByStartDesc(result) ==
    \A i \in 1..(Len(result) - 1) :
        /\ result[i].start # <<>> /\ result[i + 1].start # <<>>
        /\ result[i].start[1] >= result[i + 1].start[1]

\* result has the length of matching[skip:skip + limit], holds events of
\* matching only and, with skip = 0, no event of matching left out of it
\* starts after the last one of it
SliceOf(result, matching, skip, limit) ==
    /\ \A i \in 1..Len(result) : result[i].id \in EventIds(matching)
    /\ Len(result) =
           IF Len(matching) <= skip THEN 0
           ELSE IF Len(matching) - skip < limit THEN Len(matching) - skip ELSE limit
    /\ skip = 0 /\ result # <<>> =>
           \A k \in 1..Len(matching) :
               \/ Get(matching[k], "id", NoneId) \in EventIds(result)
               \/ LET start == dict_to_event_response(matching[k]).start
                  IN  /\ start # <<>> /\ result[Len(result)].start # <<>>
                      /\ start[1] <= result[Len(result)].start[1]

\* C9: a request answered from the cache returns the cached events that
\* pass the category and location filters, ordered by start descending,
\* restricted to positions skip to skip+limit-1; with skip = 0 these are the
\* events with the latest start.
CacheAnswerByStartDesc ==
    Done /\ req.path = "cache" =>
        /\ req.error = "none"
        /\ ByStartDesc(req.result)
        /\ SliceOf(req.result, Matching, req.skip, req.limit)

StoreErrorSurfaces ==
    [][req.pc = "query" /\ req'.pc # "query" =>
          \/ req'.pc = "backfill" /\ req'.db # <<>> /\ req'.error = "none"
          \/ /\ req'.pc = "done" /\ req'.error = "StoreError" /\ req'.path = "store"
             /\ req'.result = <<>> /\ req'.db = <<>> /\ req'.backfill = "none"
             /\ redis' = redis]_vars

\* the store query failed while the cache held some events, fewer than 100
StoreErrorSurfacesWitness ==
    /\ Done /\ req.error = "StoreError" /\ req.faults = {}
    /\ req.held > 0 /\ req.held < min_cache_threshold /\ req.result = <<>>

\* the number of rows of the store that pass the filters of the request
StoreMatching ==
    Len(fetch_from_database(store, 0, NumEvents + 1, req.category, req.location_query))

\* C12: a request with nothing to return ends with an empty list and no
\* error: on the store path when the store is empty or skip is at or beyond
\* the number of matching rows (the store itself not failing), on the cache
\* path when skip is at or beyond the number of matching cached events.
EmptyPageNotError ==
    /\ Done /\ req.path = "store" /\ req.error # "StoreError"
            /\ StoreMatching <= req.skip
         => req.error = "none" /\ req.result = <<>>
    /\ Done /\ req.path = "cache" /\ Len(Matching) <= req.skip
         => req.error = "none" /\ req.result = <<>>

\* C33: the page a request answers from the cache holds no event id twice.
CachePageWithoutDuplicates ==
    (Done /\ req.path = "cache" /\ req.error = "none") =>
        \A i, j \in 1..Len(req.result) :
            i # j => req.result[i].id # req.result[j].id

\* C34: a request made after an event was deleted (and not stored again)
\* returns no event of that id.
DeletedIsNotListed ==
    Done => \A k \in 1..Len(req.result) : req.result[k].id \notin (deleted \ store)

\* C29: a request that read at least 100 cached events, one of them with a
\* start that is null or absent, is answered from the cache with a page and
\* no error.
NullStartIsServed ==
    /\ Done
    /\ req.held >= min_cache_threshold
    /\ \E k \in 1..Len(CachedAsRead) : Get(CachedAsRead[k], "start", <<>>) = <<>>
    => req.path = "cache" /\ req.error = "none"

(***************************** EmbeddingService ***************************)
\* _clean_text: '' for an empty text, else the text stripped, runs of
\* whitespace collapsed to one blank, cut at 8000 characters
text_limit == 8000

clean_text(text) ==
    LET keep(i) ==
            \/ text[i] # " "
            \/ /\ i > 1 /\ text[i - 1] # " "
               /\ \E j \in (i + 1)..Len(text) : text[j] # " "
        kept == SelectSeq([i \in 1..Len(text) |-> i], keep)
        joined == [k \in 1..Len(kept) |-> text[kept[k]]]
    IN  IF Len(joined) > text_limit THEN SubSeq(joined, 1, text_limit) ELSE joined

\* what client.models.embed_content does: it raises, or it returns a
\* response whose embeddings list is empty or holds one list of values
ProviderResponses ==
    {[raises |-> TRUE, embeddings |-> <<>>],
     [raises |-> FALSE, embeddings |-> <<>>],
     [raises |-> FALSE, embeddings |-> << <<>> >>],
     [raises |-> FALSE, embeddings |-> << Vec(4, 3) >>],
     [raises |-> FALSE, embeddings |-> << Vec(NaN, 3) >>],
     [raises |-> FALSE, embeddings |-> << Vec(4, Inf) >>],
     [raises |-> FALSE, embeddings |-> << <<4>> >>]}

Texts == {<<>>, <<" ", " ">>, <<"j", "a", "z", "z">>, <<" ", "a", " ", " ", "b", " ">>}

isnan_or_isinf(values) == \E i \in 1..Len(values) : values[i] \in {NaN, Inf}

\* generate_embedding(text), response being what the provider does if it is
\* called. It returns, or raises, a vector; called: the provider was called.
generate_embedding(text, response) ==
    LET clean == clean_text(text)
        sentinel(called) == [raised |-> FALSE, called |-> called, vector |-> Sentinel]
    IN  IF clean = <<>> THEN sentinel(FALSE)
        ELSE IF response.raises \/ response.embeddings = <<>> THEN sentinel(TRUE)
        ELSE IF response.embeddings[1] = <<>> THEN sentinel(TRUE)
        ELSE IF isnan_or_isinf(response.embeddings[1]) THEN sentinel(TRUE)
        ELSE [raised |-> FALSE, called |-> TRUE, vector |-> response.embeddings[1]]

(************************ similarity: the arithmetic ***********************)
dot(a, b) == LET RECURSIVE sum(_)
                 sum(i) == IF i = 0 THEN 0 ELSE a[i] * b[i] + sum(i - 1)
             IN  sum(Len(a))

\* the cosine of two vectors of non-zero norm and non-negative product, in
\* hundredths rounded towards zero: the largest c with c/100 <= cosine
cosine(a, b) ==
    LET d == dot(a, b)
        n == dot(a, a) * dot(b, b)
    IN  CHOOSE c \in 0..100 :
            /\ c * c * n <= 10000 * d * d
            /\ c = 100 \/ (c + 1) * (c + 1) * n > 10000 * d * d

\* list.sort(key=score, reverse=True): stable, equal scores keep their order
RECURSIVE sort_by_score(_)
sort_by_score(entries) ==
    IF Len(entries) <= 1 THEN entries
    ELSE LET rest == sort_by_score(Tail(entries))
             first == Head(entries)
             before == SelectSeq(rest, LAMBDA x : x.similarity_score > first.similarity_score)
             after == SelectSeq(rest, LAMBDA x : x.similarity_score <= first.similarity_score)
         IN  before \o <<first>> \o after

prefix(seq, limit) == SubSeq(seq, 1, IF Len(seq) < limit THEN Len(seq) ELSE limit)

(************************ EmbeddingService.cosine_similarity ***************)
\* numpy's arithmetic on components that may be NaN or infinite, the
\* finite ones being non-negative: the class of a norm and of a dot product
norm_class(v) ==
    IF \E i \in 1..Len(v) : v[i] = NaN THEN "nan"
    ELSE IF \E i \in 1..Len(v) : v[i] = Inf THEN "inf"
    ELSE IF dot(v, v) = 0 THEN "zero" ELSE "finite"

dot_class(a, b) ==
    IF \E i \in 1..Len(a) : \/ NaN \in {a[i], b[i]}
                             \/ (a[i] = Inf /\ b[i] = 0)
                             \/ (a[i] = 0 /\ b[i] = Inf)
    THEN "nan"
    ELSE IF \E i \in 1..Len(a) : a[i] = Inf \/ b[i] = Inf THEN "inf"
    ELSE "finite"

\* dot_product / (norm1 * norm2) for norms that are not zero: NaN, or the
\* cosine in hundredths
divide(a, b) ==
    IF "nan" \in {dot_class(a, b), norm_class(a), norm_class(b)} THEN NaN
    ELSE IF dot_class(a, b) = "inf" THEN NaN     \* inf / inf
    ELSE IF "inf" \in {norm_class(a), norm_class(b)} THEN 0
    ELSE cosine(a, b)

\* Mutant of cosine_similarity: the quotient is returned as it is, without
\* the check of line 181.
cosine_similarity_unchecked(embedding1, embedding2) ==
    IF Len(embedding1) # Len(embedding2) THEN [raised |-> FALSE, value |-> 0]
    ELSE IF "zero" \in {norm_class(embedding1), norm_class(embedding2)}
    THEN [raised |-> FALSE, value |-> 0]
    ELSE [raised |-> FALSE, value |-> divide(embedding1, embedding2)]

\* cosine_similarity: np.dot raises for vectors of different lengths, inside
\* the try whose handler returns 0.0
cosine_similarity(embedding1, embedding2) ==
    IF Len(embedding1) # Len(embedding2) THEN [raised |-> FALSE, value |-> 0]
    ELSE IF "zero" \in {norm_class(embedding1), norm_class(embedding2)}
    THEN [raised |-> FALSE, value |-> 0]
    ELSE IF divide(embedding1, embedding2) = NaN THEN [raised |-> FALSE, value |-> 0]
    ELSE [raised |-> FALSE, value |-> divide(embedding1, embedding2)]

Embeddings ==
    {<<>>, <<4>>, Vec(0, 0), Vec(3, 4), Vec(4, 3), Vec(5, 0), Vec(NaN, 3), Vec(4, Inf),
     Vec(0, Inf), Vec(Inf, Inf)}

(************************ EnhancedSimilarityService ************************)
candidate_limit == 500

\* the rows _manual_similarity_search loads: embeddings not NULL, not the
\* excluded id (0: none excluded), at most 500 of them
manual_candidates(rows, exclude_event_id) ==
    prefix(SelectSeq(rows, LAMBDA event :
               /\ event.embeddings # <<>>
               /\ exclude_event_id = NoneId \/ event.id # exclude_event_id),
           candidate_limit)

manual_scored(events, query_embedding, min_similarity) ==
    LET scored(event) ==
            /\ Len(event.embeddings[1]) > 0
            /\ Len(event.embeddings[1]) = Len(query_embedding)
            /\ dot(query_embedding, query_embedding) > 0
            /\ dot(event.embeddings[1], event.embeddings[1]) > 0
            /\ cosine(query_embedding, event.embeddings[1]) >= min_similarity
        kept == SelectSeq(events, scored)
    IN  [k \in 1..Len(kept) |->
            [id |-> kept[k].id,
             similarity_score |-> cosine(query_embedding, kept[k].embeddings[1])]]

\* Mutant of manual_similarity_search: the list is cut before it is sorted.
manual_similarity_search_unsorted(rows, query_embedding, limit, min_similarity, exclude_event_id) ==
    prefix(manual_scored(manual_candidates(rows, exclude_event_id),
                         query_embedding, min_similarity), limit)

manual_similarity_search(rows, query_embedding, limit, min_similarity, exclude_event_id) ==
    prefix(sort_by_score(manual_scored(manual_candidates(rows, exclude_event_id),
                                       query_embedding, min_similarity)), limit)

\* The pgvector query of _find_by_vector_similarity: the rows with
\* embeddings, without the excluded id, of similarity >= min_similarity, by
\* distance ascending (rows of equal distance in the order of the table),
\* at most limit of them.
\* Mutant of native_rows: the query without its "id != :exclude_id".
native_rows_with_seed(rows, query_embedding, limit, min_similarity, exclude_event_id) ==
    LET kept == SelectSeq(rows, LAMBDA event :
                    /\ event.embeddings # <<>>
                    /\ cosine(query_embedding, event.embeddings[1]) >= min_similarity)
        scored == [k \in 1..Len(kept) |->
                     [id |-> kept[k].id,
                      similarity_score |-> cosine(query_embedding, kept[k].embeddings[1])]]
    IN  prefix(sort_by_score(scored), limit)

native_rows(rows, query_embedding, limit, min_similarity, exclude_event_id) ==
    LET kept == SelectSeq(rows, LAMBDA event :
                    /\ event.embeddings # <<>>
                    /\ exclude_event_id = NoneId \/ event.id # exclude_event_id
                    /\ cosine(query_embedding, event.embeddings[1]) >= min_similarity)
        scored == [k \in 1..Len(kept) |->
                     [id |-> kept[k].id,
                      similarity_score |-> cosine(query_embedding, kept[k].embeddings[1])]]
    IN  prefix(sort_by_score(scored), limit)

\* the native query raises when the store does (fault) and when the query
\* vector has not the dimension of the column
native_raises(query_embedding, fault) == fault \/ Len(query_embedding) # Dimension

\* _find_by_vector_similarity: the native query, and on any exception the
\* brute-force search, whose own store query is not guarded
enhanced_find_by_vector_similarity(rows, query_embedding, limit, min_similarity, exclude_event_id, faults) ==
    IF ~native_raises(query_embedding, faults.native)
    THEN [raised |-> FALSE, native |-> "ok", manual |-> "none", loaded |-> <<>>,
          results |-> native_rows(rows, query_embedding, limit, min_similarity, exclude_event_id)]
    ELSE IF faults.manual
    THEN [raised |-> TRUE, native |-> "raised", manual |-> "raised", loaded |-> <<>>,
          results |-> <<>>]
    ELSE [raised |-> FALSE, native |-> "raised", manual |-> "ok",
          loaded |-> manual_candidates(rows, exclude_event_id),
          results |-> manual_similarity_search(rows, query_embedding, limit,
                                               min_similarity, exclude_event_id)]

NoSearch == [raised |-> FALSE, native |-> "none", manual |-> "none", loaded |-> <<>>,
             results |-> <<>>]

\* select(Event).where(Event.id == event_id), scalar_one_or_none
source_event(rows, event_id) == SelectSeq(rows, LAMBDA event : event.id = event_id)

\* Mutant of enhanced_find_similar_events_by_id: a source event without
\* embeddings is searched for with the sentinel vector.
enhanced_find_similar_events_by_id_always(rows, event_id, limit, min_similarity, faults) ==
    LET source == source_event(rows, event_id)
    IN  IF source = <<>> THEN NoSearch
        ELSE enhanced_find_by_vector_similarity(
                 rows, IF source[1].embeddings = <<>> THEN Sentinel
                       ELSE source[1].embeddings[1],
                 limit, min_similarity, event_id, faults)

\* EnhancedSimilarityService.find_similar_events_by_id
enhanced_find_similar_events_by_id(rows, event_id, limit, min_similarity, faults) ==
    LET source == source_event(rows, event_id)
    IN  IF source = <<>> \/ source[1].embeddings = <<>> THEN NoSearch
        ELSE enhanced_find_by_vector_similarity(rows, source[1].embeddings[1], limit,
                                                min_similarity, event_id, faults)

(*************************** the similarity routes *************************)
similarity_limit == 5

\* Mutant of similar_limit: the limit of the request is passed on as it is.
similar_limit_uncapped(limit) == limit

\* min(limit, 5) of get_similar_events
similar_limit(limit) == IF limit < similarity_limit THEN limit ELSE similarity_limit

as_similar(results) ==
    [k \in 1..Len(results) |->
        [id |-> results[k].id, similarity_score |-> results[k].similarity_score,
         relationship_type |-> "similar"]]

SeedIds == 1..(Len(EventRows) + 1)     \* the last one is of no row
Limits == {1, 3, 10, 100}
MinSimilarities == {0, 70, 97, 100}
StoreFaults == [native : BOOLEAN, manual : BOOLEAN]

\* POST /events/search/similar. The call by id passes no session, which
\* find_similar_events_by_id requires (TypeError, handler of line 123); the
\* call by text is to find_similar_events, a method the service has not
\* (AttributeError, handler of line 99). Neither reaches the store.
SearchSimilar ==
    /\ sim.pc = "idle"
    /\ \E query_text \in {<<>>} \cup {<<t>> : t \in Texts}, event_id \in {NoneId} \cup SeedIds,
          limit \in Limits :
          sim' = [IdleSim EXCEPT
                    !.pc = "done", !.op = "search_similar_events",
                    !.event_id = event_id,
                    !.query_text = IF query_text = <<>> THEN <<>> ELSE query_text[1],
                    !.limit = limit,
                    !.outcome = IF (query_text = <<>> \/ query_text[1] = <<>>)
                                    /\ event_id = NoneId
                                THEN "400" ELSE "500"]
    /\ UNCHANGED <<now, redis, last, calls, proc, writes, store, runs, served, req,
                   table, pairs, restVars>>

\* GET /events/{event_id}/similar. The 404 of line 176 is raised inside the
\* try whose handler (line 198) catches Exception and raises 500.
GetSimilar ==
    /\ sim.pc = "idle"
    /\ \E event_id \in SeedIds, limit \in Limits, min_similarity \in MinSimilarities,
          faults \in StoreFaults :
          \E found \in {enhanced_find_similar_events_by_id(
                            table, event_id, similar_limit(limit), min_similarity, faults)} :
             LET source == source_event(table, event_id)
                 ok == ~found.raised /\ source # <<>>
             IN  sim' = [IdleSim EXCEPT
                    !.pc = "done", !.op = "get_similar_events",
                    !.event_id = event_id, !.limit = limit,
                    !.min_similarity = min_similarity,
                    !.query = IF source = <<>> THEN <<>> ELSE source[1].embeddings,
                    !.native = found.native, !.manual = found.manual,
                    !.loaded = found.loaded, !.results = found.results,
                    !.outcome = IF ok THEN "200" ELSE "500",
                    !.query_event = IF ok THEN event_id ELSE NoneId,
                    !.similar_events = IF ok THEN as_similar(found.results) ELSE <<>>,
                    !.total_found = IF ok THEN Len(found.results) ELSE 0]
    /\ UNCHANGED <<now, redis, last, calls, proc, writes, store, runs, served, req,
                   table, pairs, restVars>>

(**************** EnhancedSimilarityService and EmbeddingService ***********)
\* EnhancedSimilarityService.find_similar_events_by_text: the embedding of
\* the text, whatever generate_embedding returned, is the query vector
ByText ==
    /\ sim.pc = "idle"
    /\ \E query_text \in Texts, response \in ProviderResponses, limit \in Limits,
          min_similarity \in MinSimilarities, faults \in StoreFaults :
          \E embedded \in {generate_embedding(query_text, response)} :
             \E found \in {IF embedded.raised THEN NoSearch
                           ELSE enhanced_find_by_vector_similarity(
                                    table, embedded.vector, limit, min_similarity,
                                    NoneId, faults)} :
                sim' = [IdleSim EXCEPT
                    !.pc = "done", !.op = "find_similar_events_by_text",
                    !.query_text = query_text, !.limit = limit,
                    !.min_similarity = min_similarity,
                    !.provider = <<response>>, !.called = embedded.called,
                    !.query = IF embedded.raised THEN <<>> ELSE <<embedded.vector>>,
                    !.native = found.native, !.manual = found.manual,
                    !.loaded = found.loaded, !.results = found.results,
                    !.outcome = IF embedded.raised \/ found.raised
                                THEN "raised" ELSE "returned"]
    /\ UNCHANGED <<now, redis, last, calls, proc, writes, store, runs, served, req,
                   table, pairs, restVars>>

\* EmbeddingService.generate_embedding
Embed ==
    /\ sim.pc = "idle"
    /\ \E query_text \in Texts, response \in ProviderResponses :
          \E embedded \in {generate_embedding(query_text, response)} :
             sim' = [IdleSim EXCEPT
                    !.pc = "done", !.op = "generate_embedding",
                    !.query_text = query_text,
                    !.provider = <<response>>, !.called = embedded.called,
                    !.query = IF embedded.raised THEN <<>> ELSE <<embedded.vector>>,
                    !.outcome = IF embedded.raised THEN "raised" ELSE "returned"]
    /\ UNCHANGED <<now, redis, last, calls, proc, writes, store, runs, served, req,
                   table, pairs, restVars>>

\* EmbeddingService.cosine_similarity
Cosine ==
    /\ sim.pc = "idle"
    /\ \E embedding1 \in Embeddings, embedding2 \in Embeddings :
          \E answer \in {cosine_similarity(embedding1, embedding2)} :
             sim' = [IdleSim EXCEPT
                    !.pc = "done", !.op = "cosine_similarity",
                    !.query = <<embedding1>>, !.other = <<embedding2>>,
                    !.similarity = answer.value,
                    !.outcome = IF answer.raised THEN "raised" ELSE "returned"]
    /\ UNCHANGED <<now, redis, last, calls, proc, writes, store, runs, served, req,
                   table, pairs, restVars>>

(***************************** SimilarityService ***************************)
\* SimilarityService._find_by_vector_similarity: [] when the query raises
find_by_vector_similarity(rows, query_embedding, limit, min_similarity, exclude_event_id, fault) ==
    IF native_raises(query_embedding, fault) THEN <<>>
    ELSE native_rows(rows, query_embedding, limit, min_similarity, exclude_event_id)

\* _find_related_events: the non-blank pieces, Event.id.in_(related_ids)
find_related_events(rows, related_ids_str) ==
    LET related_ids == {related_ids_str[i] : i \in 1..Len(related_ids_str)} \ {0}
        events == SelectSeq(rows, LAMBDA event : event.id \in related_ids)
    IN  [k \in 1..Len(events) |-> events[k].id]

\* _find_stored_similarities: the rows of the pair table that hold event_id
\* on either side, joined to the event on the other side, by score
\* descending, at most limit of them
find_stored_similarities(rows, pair_rows, event_id, limit) ==
    LET other(p) == IF p.event_id_1 = event_id THEN p.event_id_2 ELSE p.event_id_1
        joined == SelectSeq(pair_rows, LAMBDA p :
                      /\ p.event_id_1 = event_id \/ p.event_id_2 = event_id
                      /\ source_event(rows, other(p)) # <<>>)
        entries == [k \in 1..Len(joined) |->
                      [id |-> other(joined[k]),
                       similarity_score |-> joined[k].similarity_score,
                       relationship_type |-> joined[k].relationship_type]]
    IN  prefix(sort_by_score(entries), limit)

\* Mutant of append_new: every entry is appended.
append_all(similar_events, entries) == similar_events \o entries

\* the loops of lines 96-117: an entry is appended unless its id is there
RECURSIVE append_new(_, _)
append_new(similar_events, entries) ==
    IF entries = <<>> THEN similar_events
    ELSE append_new(
            IF \E k \in 1..Len(similar_events) : similar_events[k].id = Head(entries).id
            THEN similar_events ELSE Append(similar_events, Head(entries)),
            Tail(entries))

\* SimilarityService.find_similar_events_by_id
find_similar_events_by_id(rows, pair_rows, event_id, limit, min_similarity, include_related, fault) ==
    LET source == source_event(rows, event_id)
        vector_similar ==
            IF source # <<>> /\ source[1].embeddings # <<>>
            THEN as_similar(find_by_vector_similarity(
                     rows, source[1].embeddings[1], limit, min_similarity, event_id, fault))
            ELSE <<>>
        related_ids ==
            IF source # <<>> /\ include_related /\ source[1].related_event_ids # <<>>
            THEN find_related_events(rows, source[1].related_event_ids)
            ELSE <<>>
        related_events ==
            [k \in 1..Len(related_ids) |->
                [id |-> related_ids[k], similarity_score |-> 100,
                 relationship_type |-> "related"]]
        stored_similar == find_stored_similarities(rows, pair_rows, event_id, limit)
        merged == append_new(append_new(vector_similar, related_events), stored_similar)
        similar_events == prefix(sort_by_score(merged), limit)
    IN  IF source = <<>>
        THEN [query_event |-> NoneId, vector |-> <<>>, related |-> <<>>, stored |-> <<>>,
              similar_events |-> <<>>, total_found |-> 0]
        ELSE [query_event |-> event_id, vector |-> vector_similar,
              related |-> related_ids, stored |-> stored_similar,
              similar_events |-> similar_events, total_found |-> Len(similar_events)]

MergeById ==
    /\ sim.pc = "idle"
    /\ \E event_id \in SeedIds, limit \in Limits, min_similarity \in MinSimilarities,
          include_related \in BOOLEAN, fault \in BOOLEAN :
          \E found \in {find_similar_events_by_id(table, pairs, event_id, limit,
                                                  min_similarity, include_related, fault)} :
             LET source == source_event(table, event_id)
             IN  sim' = [IdleSim EXCEPT
                    !.pc = "done", !.op = "find_similar_events_by_id",
                    !.event_id = event_id, !.limit = limit,
                    !.min_similarity = min_similarity,
                    !.include_related = include_related,
                    !.query = IF source = <<>> THEN <<>> ELSE source[1].embeddings,
                    !.native = IF source = <<>> \/ source[1].embeddings = <<>> THEN "none"
                               ELSE IF native_raises(source[1].embeddings[1], fault)
                               THEN "raised" ELSE "ok",
                    !.vector = found.vector, !.related = found.related,
                    !.stored = found.stored,
                    !.outcome = "returned",
                    !.query_event = found.query_event,
                    !.similar_events = found.similar_events,
                    !.total_found = found.total_found]
    /\ UNCHANGED <<now, redis, last, calls, proc, writes, store, runs, served, req,
                   table, pairs, restVars>>

\* the answer is out; the next request
SimReturn ==
    /\ sim.pc = "done"
    /\ sim' = IdleSim
    /\ UNCHANGED <<now, redis, last, calls, proc, writes, store, runs, served, req,
                   table, pairs, restVars>>

InitSim ==
    /\ now = 0
    /\ redis = EmptyRedis
    /\ last = NoLast
    /\ calls = 0
    /\ proc = [p \in {} |-> NoProc]
    /\ writes = <<>>
    /\ store = {}
    /\ runs = 0
    /\ served = 0
    /\ req = IdleReq
    /\ NoSimilarity
    /\ NoRest

NextSim ==
    \/ SearchSimilar
    \/ GetSimilar
    \/ ByText
    \/ Embed
    \/ MergeById
    \/ Cosine
    \/ SimReturn

SpecSim == InitSim /\ [][NextSim]_vars

(******************* the merge over rows that name themselves **************)
\* The columns related_event_ids and event_id_1/event_id_2 carry no
\* constraint: an event row may name its own id among its related ids and a
\* pair row may hold one id on both sides.
RelatedToItself ==
    [EventRows EXCEPT ![3].related_event_ids = <<5, 3>>]

PairedWithItself ==
    Append(SimilarityRows,
           [event_id_1 |-> 2, event_id_2 |-> 2, similarity_score |-> 100,
            relationship_type |-> "related"])

InitSelf ==
    /\ now = 0
    /\ redis = EmptyRedis
    /\ last = NoLast
    /\ calls = 0
    /\ proc = [p \in {} |-> NoProc]
    /\ writes = <<>>
    /\ store = {}
    /\ runs = 0
    /\ served = 0
    /\ req = IdleReq
    /\ table \in {EventRows, RelatedToItself}
    /\ pairs \in {SimilarityRows, PairedWithItself}
    /\ sim = IdleSim
    /\ NoRest

NextSelf ==
    \/ MergeById
    \/ SimReturn

SpecSelf == InitSelf /\ [][NextSelf]_vars

(************************* similarity: properties **************************)
SimDone(op) == sim.pc = "done" /\ sim.op = op

\* C13: the answer of the search endpoint holds at most 5 similar events
\* and the answer of the similar-by-id endpoint at most min(limit, 5),
\* whatever limit the request names.
ForcedResultCap ==
    /\ SimDone("search_similar_events") => Len(sim.similar_events) <= 5
    /\ SimDone("get_similar_events") =>
          /\ Len(sim.similar_events) <= 5
          /\ Len(sim.similar_events) <= sim.limit

\* a request for 100 similar events of an event with more than 5 is
\* answered with 5
ForcedResultCapWitness ==
    /\ SimDone("get_similar_events")
    /\ sim.outcome = "200"
    /\ sim.limit = 100
    /\ Len(sim.similar_events) = 5
    /\ sim.total_found = 5

\* C14: a similarity request runs the brute-force computation exactly when
\* its native vector query raised: after a native query that raised the
\* brute-force search has run, and after one that succeeded, with rows or
\* without, it has not and the rows of the answer are the native rows.
BruteForceIffNativeRaised ==
    sim.pc = "done" =>
        /\ sim.native = "raised" => sim.manual # "none"
        /\ sim.native = "ok" =>
              /\ sim.manual = "none"
              /\ sim.op = "get_similar_events" =>
                    sim.results = native_rows(table, sim.query[1], similar_limit(sim.limit),
                                              sim.min_similarity, sim.event_id)

\* the brute-force search of a request in `sim` ran and returned
BruteForced ==
    /\ sim.pc = "done"
    /\ sim.op \in {"get_similar_events", "find_similar_events_by_text"}
    /\ sim.manual = "ok"

BruteLimit == IF sim.op = "get_similar_events" THEN similar_limit(sim.limit) ELSE sim.limit
BruteExclude == IF sim.op = "get_similar_events" THEN sim.event_id ELSE NoneId

\* the candidate has a score against the query vector and it qualifies
Qualifies(event, query_embedding, min_similarity) ==
    /\ Len(event.embeddings[1]) = Len(query_embedding)
    /\ dot(query_embedding, query_embedding) > 0
    /\ dot(event.embeddings[1], event.embeddings[1]) > 0
    /\ cosine(query_embedding, event.embeddings[1]) >= min_similarity

BruteForceSound(results, loaded, query_embedding, limit, min_similarity, exclude) ==
    /\ Len(loaded) <= 500
    /\ \A k \in 1..Len(loaded) :
          /\ \E i \in 1..Len(table) : table[i] = loaded[k]
          /\ loaded[k].embeddings # <<>>
          /\ loaded[k].id # exclude
    /\ Len(results) <= limit
    /\ \A k \in 1..Len(results) :
          /\ results[k].similarity_score >= min_similarity
          /\ \E c \in 1..Len(loaded) :
                /\ loaded[c].id = results[k].id
                /\ Len(loaded[c].embeddings[1]) = Len(query_embedding)
                /\ results[k].similarity_score = cosine(query_embedding, loaded[c].embeddings[1])
          /\ k > 1 => results[k - 1].similarity_score >= results[k].similarity_score
          /\ \A j \in 1..Len(results) : results[j].id = results[k].id => j = k
    /\ \A c \in 1..Len(loaded) :
          Qualifies(loaded[c], query_embedding, min_similarity) =>
             \/ \E k \in 1..Len(results) : results[k].id = loaded[c].id
             \/ /\ Len(results) = limit
                /\ \A k \in 1..Len(results) :
                      results[k].similarity_score >= cosine(query_embedding, loaded[c].embeddings[1])

\* C15: after a native query that raised, the brute-force result holds only
\* loaded candidates (rows with embeddings, not the excluded id, at most
\* 500), each once with its cosine score, every score at least
\* min_similarity, in descending order, at most limit of them, and no loaded
\* candidate that qualifies with a higher score than a returned one is left
\* out; a candidate whose vector length differs from the query's is skipped
\* and the search goes on.
BruteForceResult ==
    BruteForced =>
        /\ sim.native = "raised"
        /\ BruteForceSound(sim.results, sim.loaded, sim.query[1], BruteLimit,
                           sim.min_similarity, BruteExclude)

\* the brute-force search cut its list at limit and left a qualifying
\* candidate out
BruteForceResultWitness ==
    /\ BruteForced
    /\ Len(sim.results) = BruteLimit
    /\ Len(sim.results) >= 3
    /\ sim.results[1].similarity_score > sim.results[3].similarity_score
    /\ \E c \in 1..Len(sim.loaded) :
          /\ Qualifies(sim.loaded[c], sim.query[1], sim.min_similarity)
          /\ \A k \in 1..Len(sim.results) : sim.results[k].id # sim.loaded[c].id

\* find_similar_events_by_id of SimilarityService found its source event
MergeDone == SimDone("find_similar_events_by_id") /\ sim.query_event # NoneId

IdsOf(entries) == {entries[k].id : k \in 1..Len(entries)}
VectorIds == IdsOf(sim.vector)
RelatedIds == {sim.related[k] : k \in 1..Len(sim.related)}
PrecomputedIds == IdsOf(sim.stored)

\* what the first source that holds the id says about it
FirstSource(id) ==
    IF id \in VectorIds
    THEN sim.vector[CHOOSE k \in 1..Len(sim.vector) : sim.vector[k].id = id]
    ELSE IF id \in RelatedIds
    THEN [id |-> id, similarity_score |-> 100, relationship_type |-> "related"]
    ELSE sim.stored[CHOOSE k \in 1..Len(sim.stored) :
                        /\ sim.stored[k].id = id
                        /\ \A j \in 1..(k - 1) : sim.stored[j].id # id]

FirstSourceWins ==
    /\ \A k \in 1..Len(sim.similar_events) :
          /\ sim.similar_events[k].id \in VectorIds \cup RelatedIds \cup PrecomputedIds
          /\ sim.similar_events[k] = FirstSource(sim.similar_events[k].id)
          /\ \A j \in 1..Len(sim.similar_events) :
                sim.similar_events[j].id = sim.similar_events[k].id => j = k

\* 2 vector matches, 1 related id among them, 1 related id apart, 1
\* precomputed row whose target is in neither
MergeScenario ==
    /\ Cardinality(VectorIds) = 2
    /\ Cardinality(RelatedIds \cap VectorIds) = 1
    /\ Cardinality(RelatedIds \ VectorIds) = 1
    /\ Cardinality(PrecomputedIds \ (VectorIds \cup RelatedIds)) = 1

\* C16: in the merge of find_similar_events_by_id each id appears at most
\* once with the score and type of the first source that holds it (vector
\* search, then related ids with score 1.0 and type "related", then
\* precomputed rows), and with 2 vector matches, 1 overlapping related id,
\* 1 distinct related id and 1 distinct precomputed row the result has
\* exactly 4 entries.
MergeHasFourEntries ==
    MergeDone =>
        /\ FirstSourceWins
        /\ MergeScenario => Len(sim.similar_events) = 4

\* C16, amended: the same, the merged list being sorted by score and cut at
\* the limit of the request: every id of a source is in the result unless
\* limit entries of at least its score are, and in the scenario the result
\* has min(limit, 4) entries.
MergeCutAtLimit ==
    MergeDone =>
        /\ FirstSourceWins
        /\ Len(sim.similar_events) <= sim.limit
        /\ \A id \in VectorIds \cup RelatedIds \cup PrecomputedIds :
              \/ id \in IdsOf(sim.similar_events)
              \/ /\ Len(sim.similar_events) = sim.limit
                 /\ \A k \in 1..Len(sim.similar_events) :
                       sim.similar_events[k].similarity_score
                           >= FirstSource(id).similarity_score
        /\ MergeScenario =>
              Len(sim.similar_events) = IF sim.limit < 4 THEN sim.limit ELSE 4

\* the scenario with room for every entry: 4 entries, the overlapping id
\* once and "similar"
MergeCutAtLimitWitness ==
    /\ MergeDone
    /\ MergeScenario
    /\ sim.limit >= 4
    /\ Len(sim.similar_events) = 4
    /\ \E id \in RelatedIds \cap VectorIds :
          \E k \in 1..4 : /\ sim.similar_events[k].id = id
                          /\ sim.similar_events[k].relationship_type = "similar"
    /\ \E k \in 1..4 : /\ sim.similar_events[k].relationship_type = "related"
                       /\ sim.similar_events[k].similarity_score = 100

SeedRequest ==
    /\ sim.pc = "done"
    /\ sim.op \in {"search_similar_events", "get_similar_events", "find_similar_events_by_id"}
    /\ sim.event_id # NoneId

\* C17: a similar-events request whose seed id is of no event in the store
\* ends with NotFound (HTTP 404), neither a server error nor a successful
\* empty answer.
MissingSeedIsNotFound ==
    SeedRequest /\ source_event(table, sim.event_id) = <<>> => sim.outcome = "404"

\* no other event with embeddings reaches min_similarity against the seed
NoneQualifies(event_id, min_similarity) ==
    LET source == source_event(table, event_id)
    IN  /\ source # <<>>
        /\ \/ source[1].embeddings = <<>>
           \/ \A i \in 1..Len(table) :
                 \/ table[i].id = event_id
                 \/ table[i].embeddings = <<>>
                 \/ cosine(source[1].embeddings[1], table[i].embeddings[1]) < min_similarity

\* C18: a similarity search by the id of an existing event for which no
\* event reaches min_similarity (0.7, the default of the service, on the
\* search endpoint) completes with an empty similar_events list and
\* total_found = 0 unless the store fails, and every successful response
\* has total_found equal to the length of similar_events.
NoMatchIsEmptySuccess ==
    /\ SimDone("search_similar_events") /\ sim.event_id # NoneId
          /\ NoneQualifies(sim.event_id, 70)
          => sim.outcome = "200" /\ sim.similar_events = <<>> /\ sim.total_found = 0
    /\ SimDone("get_similar_events") /\ sim.manual # "raised"
          /\ NoneQualifies(sim.event_id, sim.min_similarity)
          => sim.outcome = "200" /\ sim.similar_events = <<>> /\ sim.total_found = 0
    /\ sim.pc = "done" /\ sim.outcome \in {"200", "returned"}
          => sim.total_found = Len(sim.similar_events)

\* C19: when the embedding provider fails during a text similarity request,
\* the request ends with an error and no similarity query is run.
ProviderFailureAborts ==
    SimDone("find_similar_events_by_text") /\ sim.called /\ sim.provider[1].raises =>
        /\ sim.outcome = "raised"
        /\ sim.native = "none"
        /\ sim.manual = "none"

\* the provider gave nothing generate_embedding can return
ProviderFailed(response) ==
    \/ response.raises
    \/ response.embeddings = <<>>
    \/ response.embeddings[1] = <<>>
    \/ isnan_or_isinf(response.embeddings[1])

\* C20: generate_embedding returns for every text; it returns the sentinel
\* vector when the cleaned text is empty and when the provider call fails,
\* returns no values or returns NaN or infinite values; and every vector it
\* returns has the configured dimension.
EmbeddingOfDimension ==
    SimDone("generate_embedding") =>
        /\ sim.outcome = "returned"
        /\ ~sim.called \/ ProviderFailed(sim.provider[1]) => sim.query[1] = Sentinel
        /\ ~sim.called <=> clean_text(sim.query_text) = <<>>
        /\ Len(sim.query[1]) = Dimension

\* the seed of a finished similar-by-id request is a row without embeddings
SeedWithoutEmbeddings ==
    /\ SimDone("get_similar_events")
    /\ source_event(table, sim.event_id) # <<>>
    /\ source_event(table, sim.event_id)[1].embeddings = <<>>

\* C21: a similarity query by the id of an event that exists but has no
\* stored embedding returns an empty result without raising and runs
\* neither the native vector query nor the brute-force scan.
NoEmbeddingNoSearch ==
    SeedWithoutEmbeddings =>
        /\ sim.outcome = "200"
        /\ sim.results = <<>>
        /\ sim.similar_events = <<>>
        /\ sim.native = "none"
        /\ sim.manual = "none"

\* such a request was answered, with an empty list
NoEmbeddingNoSearchWitness ==
    /\ SeedWithoutEmbeddings
    /\ sim.outcome = "200"
    /\ sim.total_found = 0
    /\ sim.min_similarity = 0

\* the events other than the seed that qualify for the request
OthersQualifying ==
    {i \in 1..Len(table) :
        /\ table[i].id # sim.event_id
        /\ table[i].embeddings # <<>>
        /\ Qualifies(table[i], sim.query[1], sim.min_similarity)}

\* a by-id request through the enhanced service that ran a search
SearchedById ==
    /\ SimDone("get_similar_events")
    /\ sim.outcome = "200"
    /\ sim.native = "ok" \/ sim.manual = "ok"

SeedNotInMergedResult ==
    SimDone("find_similar_events_by_id") =>
        \A k \in 1..Len(sim.similar_events) :
            sim.similar_events[k].id # sim.event_id

\* C22: once the native vector query has raised, a failure inside the
\* brute-force path (its candidate query raising, no candidate, a candidate
\* vector that cannot be scored) makes the request return an empty list,
\* never an error.
BruteForceFailureIsEmpty ==
    /\ sim.pc = "done"
    /\ sim.op \in {"get_similar_events", "find_similar_events_by_text"}
    /\ sim.native = "raised"
    => /\ sim.outcome \in {"200", "returned"}
       /\ sim.manual = "raised" => sim.results = <<>>
       /\ (\A k \in 1..Len(sim.loaded) :
              ~Qualifies(sim.loaded[k], sim.query[1], sim.min_similarity))
          => sim.results = <<>>

ZeroNorm(v) == \A i \in 1..Len(v) : v[i] = 0

\* C23: cosine_similarity returns 0.0 whenever one of its vectors has norm
\* zero, and for every pair of vectors, of different lengths too, it
\* returns a number: it never raises and never returns NaN.
CosineIsANumber ==
    SimDone("cosine_similarity") =>
        /\ sim.outcome = "returned"
        /\ sim.similarity \in 0..100
        /\ ZeroNorm(sim.query[1]) \/ ZeroNorm(sim.other[1]) => sim.similarity = 0

\* the quotient of an infinite product and an infinite norm was computed,
\* and 0.0 returned
CosineIsANumberWitness ==
    /\ SimDone("cosine_similarity")
    /\ sim.query[1] = Vec(4, Inf)
    /\ sim.other[1] = Vec(3, 4)
    /\ sim.similarity = 0

(************************ the cached aggregates ****************************)
MinutesPerHour == 60
popular_events_ttl == 60        \* 3600 seconds, in minutes
busiest_cities_ttl == 60        \* 3600 seconds, in minutes
hours_window == 24
interval_hours == 3
event_limit == 5
popular_limit == 10

\* redis_client.get on the keys of the aggregates: a key whose TTL has run
\* out is gone
aggs_get(key) ==
    IF key \in DOMAIN aggs /\ aggs[key].expire_at > utc THEN <<aggs[key].value>> ELSE <<>>

aggs_setex(key, ttl, value) ==
    [k \in DOMAIN aggs \cup {key} |->
        IF k = key THEN [value |-> value, expire_at |-> utc + ttl] ELSE aggs[k]]

\* str.strip() on a region
strip(region) == IF region = " " THEN "" ELSE region

RECURSIVE sum_attendance(_)
sum_attendance(events) ==
    IF events = <<>> THEN 0 ELSE Head(events).attendance[1] + sum_attendance(Tail(events))

\* GROUP BY region ORDER BY sum(attendance) DESC; groups of equal sums in
\* an order the store chooses, here one fixed order
RECURSIVE order_by_total_desc(_)
order_by_total_desc(groups) ==
    IF groups = {} THEN <<>>
    ELSE LET first == CHOOSE g \in groups :
                          \A h \in groups : h.total_attendance <= g.total_attendance
         IN  <<first>> \o order_by_total_desc(groups \ {first})

\* the query of get_busiest_cities, times in minutes
busiest_regions(rows, start_time, end_time, limit) ==
    LET counted == SelectSeq(rows, LAMBDA event :
                       /\ event.start[1] * MinutesPerHour >= start_time
                       /\ event.start[1] * MinutesPerHour <= end_time
                       /\ event.attendance # <<>>
                       /\ event.region # "")
        regions == {counted[k].region : k \in 1..Len(counted)}
        groups == {[region |-> r,
                    total_attendance |->
                        sum_attendance(SelectSeq(counted, LAMBDA event : event.region = r))]
                   : r \in regions}
    IN  prefix(order_by_total_desc(groups), limit)

\* ORDER BY attendance DESC, start DESC: NULL attendance comes first
top_before(a, b) ==
    \/ a.attendance = <<>> /\ b.attendance # <<>>
    \/ /\ a.attendance # <<>> /\ b.attendance # <<>>
       /\ a.attendance[1] > b.attendance[1]
    \/ /\ a.attendance = b.attendance
       /\ a.start[1] > b.start[1]

RECURSIVE order_top(_)
order_top(events) ==
    IF events = {} THEN <<>>
    ELSE LET first == CHOOSE e \in events : \A f \in events : ~top_before(f, e)
         IN  <<first>> \o order_top(events \ {first})

\* _get_top_events_for_city: a query that raises gives no events. (The
\* second query, by location, runs when no row has the city as its region;
\* a city comes from a row of the same window with that region unless strip
\* changed it, and a region that strip changes is blank here.)
get_top_events_for_city(rows, city_name, start_time, end_time, raises) ==
    IF raises THEN <<>>
    ELSE LET events == SelectSeq(rows, LAMBDA event :
                           /\ event.region = city_name
                           /\ event.start[1] * MinutesPerHour >= start_time
                           /\ event.start[1] * MinutesPerHour <= end_time)
             top == prefix(order_top({events[k] : k \in 1..Len(events)}), event_limit)
         IN  [k \in 1..Len(top) |-> [id |-> top[k].id, start |-> top[k].start]]

\* the dicts of _get_event_counts_by_interval in the order of the loop,
\* newest interval first; faults: the queries (1 the first) that raise
interval_counts(rows, city_name, end_time, faults) ==
    LET now_hour == end_time \div MinutesPerHour      \* replace(minute=0, ...)
        interval_end(k) == now_hour - (k - 1) * interval_hours
        interval_start(k) == interval_end(k) - interval_hours
        count(k) == Cardinality({j \in 1..Len(rows) :
                        /\ rows[j].region = city_name
                        /\ rows[j].start[1] >= interval_start(k)
                        /\ rows[j].start[1] < interval_end(k)})
    IN  [k \in 1..(hours_window \div interval_hours) |->
            [interval_end |-> isoformat(<<interval_end(k)>>),
             interval_start |-> isoformat(<<interval_start(k)>>),
             event_count |-> IF k \in faults THEN 0 ELSE count(k)]]

\* event_counts.sort(key=lambda x: x['interval_start']): a stable sort of
\* the strings
RECURSIVE sort_by_interval_start(_)
sort_by_interval_start(event_counts) ==
    IF Len(event_counts) <= 1 THEN event_counts
    ELSE LET rest == sort_by_interval_start(Tail(event_counts))
             first == Head(event_counts)
             before == SelectSeq(rest, LAMBDA x :
                           str_less(x.interval_start, first.interval_start))
             after == SelectSeq(rest, LAMBDA x :
                          ~str_less(x.interval_start, first.interval_start))
         IN  before \o <<first>> \o after

\* Mutant of get_event_counts_by_interval: the list is left in the order of
\* the loop.
get_event_counts_by_interval_unsorted(rows, city_name, end_time, faults) ==
    interval_counts(rows, city_name, end_time, faults)

get_event_counts_by_interval(rows, city_name, end_time, faults) ==
    sort_by_interval_start(interval_counts(rows, city_name, end_time, faults))

\* the part of get_busiest_cities that reads the store, lines 345-396
busiest_cities_data(rows, end_time, time_window_days, limit, top_raises, faults) ==
    LET start_time == end_time - time_window_days * hours_window * MinutesPerHour
        found == busiest_regions(rows, start_time, end_time, limit)
        named == SelectSeq(found, LAMBDA row : strip(row.region) # "")
    IN  [k \in 1..Len(named) |->
            [city |-> strip(named[k].region),
             total_attendance |-> named[k].total_attendance,
             top_events |-> get_top_events_for_city(rows, strip(named[k].region),
                                                    start_time, end_time, top_raises),
             event_counts |-> get_event_counts_by_interval(
                                  rows, strip(named[k].region), end_time, faults)]]

\* json.dumps(busiest_cities_data, default=str) and json.loads of it: the
\* start of a top event, a datetime, becomes the string str() gives
json_busiest(data) ==
    [k \in 1..Len(data) |->
        [data[k] EXCEPT !.top_events = json_events(data[k].top_events)]]

\* response_model=List[BusiestCity]: the start of a top event is parsed if
\* it is a string
validate_busiest(data) ==
    [k \in 1..Len(data) |->
        [data[k] EXCEPT !.top_events =
            [j \in 1..Len(data[k].top_events) |->
                [data[k].top_events[j] EXCEPT !.start =
                    IF Len(data[k].top_events[j].start) = 1
                    THEN data[k].top_events[j].start
                    ELSE fromisoformat(data[k].top_events[j].start)]]]]

\* _fetch_popular_events_from_db for the day `date`: the events that start
\* on that day, the longest first (events of equal length in one fixed
\* order), at most 10 of them, with their rank
fetch_popular_events_from_db(rows, date) ==
    LET of_day == SelectSeq(rows, LAMBDA event :
                      /\ event.start[1] >= date * hours_window
                      /\ event.start[1] < (date + 1) * hours_window)
        scored == [k \in 1..Len(of_day) |->
                      [id |-> of_day[k].id, start |-> of_day[k].start,
                       similarity_score |-> of_day[k].hours]]
        events == prefix(sort_by_score(scored), popular_limit)
    IN  [i \in 1..Len(events) |->
            [id |-> events[i].id, start |-> isoformat(events[i].start),
             popularity_rank |-> i]]

\* Mutant of cached_aggregate: a hit writes the value back with a new TTL.
cached_aggregate_refreshing(key, ttl, get_raises, setex_raises, query_raises, data, dumped) ==
    LET cached_data == IF get_raises THEN <<>> ELSE aggs_get(key)
    IN  IF cached_data # <<>>
        THEN [hit |-> TRUE, queried |-> FALSE, raised |-> FALSE,
              result |-> cached_data[1], cache |-> aggs_setex(key, ttl, cached_data[1])]
        ELSE IF query_raises
        THEN [hit |-> FALSE, queried |-> TRUE, raised |-> TRUE, result |-> <<>>,
              cache |-> aggs]
        ELSE [hit |-> FALSE, queried |-> TRUE, raised |-> FALSE, result |-> data,
              cache |-> IF setex_raises THEN aggs ELSE aggs_setex(key, ttl, dumped)]

\* What get_busiest_cities and get_popular_events_for_day do around their
\* store queries: a cached value is returned as json.loads gives it; a read
\* that raises counts as no value; the store is queried (data: what it
\* gives, dumped: data through json) and an exception of the query leaves
\* the method; the write that follows may raise and is then skipped.
cached_aggregate(key, ttl, get_raises, setex_raises, query_raises, data, dumped) ==
    LET cached_data == IF get_raises THEN <<>> ELSE aggs_get(key)
    IN  IF cached_data # <<>>
        THEN [hit |-> TRUE, queried |-> FALSE, raised |-> FALSE,
              result |-> cached_data[1], cache |-> aggs]
        ELSE IF query_raises
        THEN [hit |-> FALSE, queried |-> TRUE, raised |-> TRUE, result |-> <<>>,
              cache |-> aggs]
        ELSE [hit |-> FALSE, queried |-> TRUE, raised |-> FALSE, result |-> data,
              cache |-> IF setex_raises THEN aggs ELSE aggs_setex(key, ttl, dumped)]

\* the request and what the history says about its key
Served(op, key, answer, get_raises, setex_raises, faults, response) ==
    [pc |-> "done", op |-> op, key |-> key, at |-> utc, get_raised |-> get_raises,
     setex_raised |-> setex_raises, bucket_faults |-> faults,
     hit |-> answer.hit, queried |-> answer.queried,
     outcome |-> IF answer.raised THEN "500" ELSE "200",
     result |-> IF answer.raised THEN <<>> ELSE response,
     prior |-> IF key \in DOMAIN agg.cached THEN <<agg.cached[key]>> ELSE <<>>,
     cached |-> IF answer.hit \/ answer.raised \/ setex_raises THEN agg.cached
                ELSE [k \in DOMAIN agg.cached \cup {key} |->
                         IF k = key THEN [at |-> utc, result |-> response]
                         ELSE agg.cached[k]],
     calls |-> agg.calls + 1]

BusiestArgs == {<<1, 1>>, <<7, 10>>}

\* what fails during one request: the cache read, the cache write, the
\* grouping query, the top-events query, some of the interval queries
NoAggFault == [get |-> FALSE, setex |-> FALSE, query |-> FALSE, top |-> FALSE, buckets |-> {}]
AggFaults ==
    { NoAggFault,
      [NoAggFault EXCEPT !.get = TRUE],
      [NoAggFault EXCEPT !.setex = TRUE],
      [NoAggFault EXCEPT !.query = TRUE],
      [NoAggFault EXCEPT !.top = TRUE],
      [NoAggFault EXCEPT !.buckets = {3, 8}],
      [NoAggFault EXCEPT !.get = TRUE, !.buckets = {8}] }

\* GET /events/busiest-cities
BusiestCities ==
    /\ agg.pc = "idle"
    /\ agg.calls < MaxAggCalls
    /\ \E args \in BusiestArgs, fault \in AggFaults :
          \E data \in {busiest_cities_data(table, utc, args[1], args[2], fault.top,
                                           fault.buckets)} :
             \E answer \in {cached_aggregate(<<"busiest_cities", args[1], args[2]>>,
                                             busiest_cities_ttl, fault.get, fault.setex,
                                             fault.query, data, json_busiest(data))} :
                /\ aggs' = answer.cache
                /\ agg' = Served("get_busiest_cities",
                                 <<"busiest_cities", args[1], args[2]>>, answer,
                                 fault.get, fault.setex,
                                 IF answer.hit \/ answer.raised THEN {} ELSE fault.buckets,
                                 validate_busiest(answer.result))
    /\ UNCHANGED <<now, redis, last, calls, proc, writes, store, runs, served, req,
                   simVars, utc, jobVars, batchVars, tailVars>>

PopularDates == {<<>>, <<1>>}

\* GET /events/popular/daily
PopularEvents ==
    /\ agg.pc = "idle"
    /\ agg.calls < MaxAggCalls
    /\ \E date \in PopularDates,
          fault \in {f \in AggFaults : ~f.top /\ f.buckets = {}} :
          LET target_date == IF date = <<>> THEN utc \div (hours_window * MinutesPerHour)
                             ELSE date[1]
          IN  \E data \in {fetch_popular_events_from_db(table, target_date)} :
                 \E answer \in {cached_aggregate(<<"popular_events", target_date, 0>>,
                                                 popular_events_ttl, fault.get,
                                                 fault.setex, fault.query, data, data)} :
                    /\ aggs' = answer.cache
                    /\ agg' = Served("get_popular_events_for_day",
                                     <<"popular_events", target_date, 0>>, answer,
                                     fault.get, fault.setex, {}, answer.result)
    /\ UNCHANGED <<now, redis, last, calls, proc, writes, store, runs, served, req,
                   simVars, utc, jobVars, batchVars, tailVars>>

\* the answer is out
AggReturn ==
    /\ agg.pc = "done"
    /\ agg' = [IdleAgg EXCEPT !.cached = agg.cached, !.calls = agg.calls]
    /\ UNCHANGED <<now, redis, last, calls, proc, writes, store, runs, served, req,
                   simVars, utc, aggs, jobVars, batchVars, tailVars>>

\* an ETL batch commits one more event
AggInsert ==
    /\ agg.pc = "idle"
    /\ Len(table) < Len(CityRows)
    /\ table' = Append(table, CityRows[Len(table) + 1])
    /\ UNCHANGED <<now, redis, last, calls, proc, writes, store, runs, served, req,
                   pairs, sim, aggVars, jobVars, batchVars, tailVars>>

AggClock ==
    /\ agg.pc = "idle"
    /\ utc + AggTick <= UtcStart + MaxUtcTicks * AggTick
    /\ utc' = utc + AggTick
    /\ UNCHANGED <<now, redis, last, calls, proc, writes, store, runs, served, req,
                   simVars, aggs, agg, jobVars, batchVars, tailVars>>

InitAgg ==
    /\ now = 0
    /\ redis = EmptyRedis
    /\ last = NoLast
    /\ calls = 0
    /\ proc = [p \in {} |-> NoProc]
    /\ writes = <<>>
    /\ store = {}
    /\ runs = 0
    /\ served = 0
    /\ req = IdleReq
    /\ table = SubSeq(CityRows, 1, Len(CityRows) - MaxInserts)
    /\ pairs = SimilarityRows
    /\ sim = IdleSim
    /\ utc = UtcStart
    /\ aggs = <<>>
    /\ agg = IdleAgg
    /\ NoJobs
    /\ NoBatches
    /\ NoTail

NextAgg ==
    \/ BusiestCities
    \/ PopularEvents
    \/ AggReturn
    \/ AggInsert
    \/ AggClock

SpecAgg == InitAgg /\ [][NextAgg]_vars

(******************** the cached aggregates: properties *********************)

AggDone == agg.pc = "done"

\* the request found that an earlier miss had cached a result under its key,
\* less than the TTL ago
WithinTheHour ==
    /\ AggDone
    /\ agg.prior # <<>>
    /\ agg.at < agg.prior[1].at + busiest_cities_ttl

\* C24 (as stated): once a miss has cached R under a key, every request with
\* that key made less than an hour after the miss answers R and does not
\* query the store; the first request an hour or more after it queries the
\* store again.
CachedForAnHour ==
    /\ WithinTheHour =>
          /\ ~agg.queried
          /\ agg.outcome = "200"
          /\ agg.result = agg.prior[1].result
    /\ (AggDone /\ agg.prior # <<>> /\ ~WithinTheHour) => agg.queried

\* C24 (amended): the same, for the requests whose read of the cache does
\* not raise; a request whose read raises queries the store whatever the
\* age of the entry.
CachedForAnHourUnlessReadFails ==
    /\ (WithinTheHour /\ ~agg.get_raised) =>
          /\ ~agg.queried
          /\ agg.outcome = "200"
          /\ agg.result = agg.prior[1].result
    /\ (AggDone /\ agg.prior # <<>> /\ ~WithinTheHour) => agg.queried
    /\ (AggDone /\ agg.get_raised) => agg.queried

\* a request was answered from the cache with busiest cities that the store
\* no longer gives
CachedForAnHourWitness ==
    /\ WithinTheHour
    /\ agg.hit
    /\ agg.op = "get_busiest_cities"
    /\ agg.result # validate_busiest(
           busiest_cities_data(table, agg.at, agg.key[2], agg.key[3], FALSE, {}))

\* the hour a timestamp string of the histogram stands for
hour_of(timestamp) == fromisoformat(timestamp)[1]

RECURSIVE sum_counts(_)
sum_counts(event_counts) ==
    IF event_counts = <<>> THEN 0
    ELSE Head(event_counts).event_count + sum_counts(Tail(event_counts))

\* the events of a city that start in [from_hour, to_hour)
events_between(city_name, from_hour, to_hour) ==
    Cardinality({j \in 1..Len(table) :
        /\ table[j].region = city_name
        /\ table[j].start[1] >= from_hour
        /\ table[j].start[1] < to_hour})

Buckets == hours_window \div interval_hours

\* a request for the busiest cities that was answered from the store
BusiestComputed ==
    /\ AggDone
    /\ agg.op = "get_busiest_cities"
    /\ agg.outcome = "200"
    /\ agg.queried

HistogramOf(entry) ==
    LET event_counts == entry.event_counts
        from(k) == hour_of(event_counts[k].interval_start)
        to(k) == hour_of(event_counts[k].interval_end)
    IN  /\ Len(event_counts) = Buckets
        /\ \A k \in 1..Len(event_counts) :
              /\ to(k) - from(k) = interval_hours
              /\ event_counts[k].event_count \in Nat
              /\ k > 1 => from(k) = to(k - 1)
              \* the k-th bucket is the query number Buckets + 1 - k of the loop
              /\ event_counts[k].event_count =
                    IF (Buckets + 1 - k) \in agg.bucket_faults THEN 0
                    ELSE events_between(entry.city, from(k), to(k))
        /\ to(Len(event_counts)) = agg.at \div MinutesPerHour
        /\ sum_counts(event_counts)
              <= events_between(entry.city, from(1), to(Len(event_counts)))

\* C25: every city of a busiest-cities answer has 8 buckets of 3 hours,
\* each starting where the one before ends, oldest first, the last ending at
\* the hour of the request, each count a natural number, 0 where the count
\* query raised and the number of the city's events of that bucket where it
\* did not, the counts summing to at most the city's events in the 24 hours
\* the buckets cover.
HistogramComplete ==
    BusiestComputed => \A k \in 1..Len(agg.result) : HistogramOf(agg.result[k])

\* an answer where a count query raised for a bucket that has an event, and
\* another bucket of the same city has its count
HistogramCompleteWitness ==
    /\ BusiestComputed
    /\ \E k \in 1..Len(agg.result) :
          LET event_counts == agg.result[k].event_counts
          IN  /\ \E b \in 1..Len(event_counts) :
                    /\ (Buckets + 1 - b) \in agg.bucket_faults
                    /\ events_between(agg.result[k].city,
                                      hour_of(event_counts[b].interval_start),
                                      hour_of(event_counts[b].interval_end)) > 0
              /\ \E b \in 1..Len(event_counts) : event_counts[b].event_count > 0

(****************************** the ETL jobs ********************************)
\* The job ids are uuid4 strings, here 1, 2, ... in the order of creation;
\* etl_status_store is then a sequence of dicts.

\* the record trigger_etl stores (processing_time and job_id left out)
EtlJob ==
    [status |-> "running", message |-> "ETL process started", events_processed |-> 0,
     events_created |-> 0, events_updated |-> 0]

\* the record calculate_similarities stores
SimilarityJob ==
    [status |-> "running", message |-> "Calculating event similarities",
     events_processed |-> 0]

\* dict.update on a job record: the keys of `changes` are set, new ones added
update(job, changes) ==
    [k \in DOMAIN job \cup DOMAIN changes |->
        IF k \in DOMAIN changes THEN changes[k] ELSE job[k]]

\* update_status(stage, data) of run_etl_pipeline
update_status(job, message, processed) ==
    update(job, [message |-> message, events_processed |-> processed])

\* Mutant of pipeline_raised: the exception leaves the task unhandled.
pipeline_raised_unhandled(job) == job

\* the handlers `except Exception` of run_etl_pipeline and of
\* calculate_similarities_task
pipeline_raised(job) == update(job, [status |-> "error", message |-> "failed"])

\* the final update of run_etl_pipeline from the dict that
\* fetch_and_process_events returns
final_status(job, result) ==
    update(job, [status |-> result.status, message |-> result.message,
                 events_processed |-> result.events_processed,
                 events_created |-> result.events_created,
                 events_updated |-> result.events_updated])

\* the dicts fetch_and_process_events returns
etl_result(status, message, processed, created) ==
    [status |-> status, message |-> message, events_processed |-> processed,
     events_created |-> created, events_updated |-> processed - created]

\* ETLStatus(**job_status): absent counters take their default 0, other
\* keys are dropped
ETLStatus(job_status) ==
    [status |-> job_status.status, message |-> job_status.message,
     events_processed |-> Get(job_status, "events_processed", 0),
     events_created |-> Get(job_status, "events_created", 0),
     events_updated |-> Get(job_status, "events_updated", 0)]

\* Mutant of get_etl_status: any id is answered with the first job.
get_etl_status_first(job_id) ==
    IF jobs = <<>> THEN [code |-> 404, body |-> <<>>]
    ELSE [code |-> 200, body |-> <<ETLStatus(jobs[1])>>]

get_etl_status(job_id) ==
    IF job_id \notin DOMAIN jobs THEN [code |-> 404, body |-> <<>>]
    ELSE [code |-> 200, body |-> <<ETLStatus(jobs[job_id])>>]

Task(kind, use_cache) ==
    [pc |-> "queued", kind |-> kind, use_cache |-> use_cache, raised |-> FALSE]

Step(j, job, pc, raised) ==
    /\ jobs' = [jobs EXCEPT ![j] = job]
    /\ tasks' = [tasks EXCEPT ![j].pc = pc, ![j].raised = @ \/ raised]

JobsUnchanged ==
    UNCHANGED <<now, redis, last, calls, proc, writes, store, runs, served, req,
                simVars, aggVars, batchVars, tailVars>>

\* POST /etl/trigger
TriggerEtl ==
    /\ Len(jobs) < MaxJobs
    /\ \E use_cache \in BOOLEAN :
          /\ jobs' = Append(jobs, EtlJob)
          /\ tasks' = Append(tasks, Task("etl", use_cache))
    /\ UNCHANGED poll
    /\ JobsUnchanged

\* POST /etl/calculate-similarities
CalculateSimilarities ==
    /\ Len(jobs) < MaxJobs
    /\ jobs' = Append(jobs, SimilarityJob)
    /\ tasks' = Append(tasks, Task("similarity", FALSE))
    /\ UNCHANGED poll
    /\ JobsUnchanged

\* run_etl_pipeline up to its first await: the session is opened and the
\* cache key made, which may raise
PipelineStart(j) ==
    /\ tasks[j].kind = "etl"
    /\ tasks[j].pc = "queued"
    /\ \/ Step(j, pipeline_raised(jobs[j]), "finished", TRUE)
       \/ IF tasks[j].use_cache
          THEN Step(j, update_status(jobs[j], "Checking Redis cache...", 0),
                    "cache_check", FALSE)
          ELSE Step(j, update_status(jobs[j], "Fetching events from PredictHQ", 0),
                    "fetching", FALSE)

\* get_cached_events has answered (None when it failed); then
\* update_status("fetching") and the callbacks "starting" and "fetching"
PipelineCacheChecked(j) ==
    /\ tasks[j].kind = "etl"
    /\ tasks[j].pc = "cache_check"
    /\ Step(j, update_status(jobs[j], "Fetching events from PredictHQ", 0),
            "fetching", FALSE)

\* fetch_all_events_paginated has answered or raised
PipelineFetched(j) ==
    /\ tasks[j].kind = "etl"
    /\ tasks[j].pc = "fetching"
    /\ \/ Step(j, final_status(jobs[j], etl_result("error", "ETL failed", 0, 0)),
               "finished", TRUE)
       \/ Step(j, final_status(jobs[j], etl_result("completed", "No events found", 0, 0)),
               "finished", FALSE)
       \/ Step(j, update_status(jobs[j], "Processing events", 0), "processing", FALSE)

\* a batch is done: update_progress
PipelineProgress(j) ==
    /\ tasks[j].kind = "etl"
    /\ tasks[j].pc = "processing"
    /\ jobs[j].events_processed < MaxProcessed
    /\ Step(j, update_status(jobs[j], "Processed events", jobs[j].events_processed + 1),
            "processing", FALSE)

\* process_events_batch has returned or raised: the final update, and
\* update_status("caching") when the cache is to be updated
PipelineProcessed(j) ==
    /\ tasks[j].kind = "etl"
    /\ tasks[j].pc = "processing"
    /\ \/ Step(j, final_status(jobs[j], etl_result("error", "ETL failed", 0, 0)),
               "finished", TRUE)
       \/ \E created \in 0..jobs[j].events_processed :
             LET done == final_status(jobs[j],
                             etl_result("completed", "ETL completed successfully",
                                        jobs[j].events_processed, created))
             IN  IF tasks[j].use_cache /\ done.events_processed > 0
                 THEN Step(j, update_status(done, "Updating Redis cache...", 0),
                           "caching", FALSE)
                 ELSE Step(j, done, "finished", FALSE)

\* the cache update after the job: its failures are caught and logged
PipelineCached(j) ==
    /\ tasks[j].kind = "etl"
    /\ tasks[j].pc = "caching"
    /\ \/ Step(j, jobs[j], "finished", TRUE)
       \/ Step(j, jobs[j], "finished", FALSE)
       \/ Step(j, update(jobs[j], [cache_info |-> TRUE]), "finished", FALSE)

\* calculate_similarities_task up to the answer of its query for the ids
SimilaritiesStart(j) ==
    /\ tasks[j].kind = "similarity"
    /\ tasks[j].pc = "queued"
    /\ \/ Step(j, pipeline_raised(jobs[j]), "finished", TRUE)
       \/ Step(j, update(jobs[j], [status |-> "completed",
                                   message |-> "No events with embeddings found",
                                   events_processed |-> 0]), "finished", FALSE)
       \/ Step(j, jobs[j], "calculating", FALSE)

\* calculate_and_store_similarities has returned or raised
SimilaritiesDone(j) ==
    /\ tasks[j].kind = "similarity"
    /\ tasks[j].pc = "calculating"
    /\ \/ Step(j, pipeline_raised(jobs[j]), "finished", TRUE)
       \/ Step(j, update(jobs[j], [status |-> "completed",
                                   message |-> "Calculated similarities",
                                   events_processed |-> MaxProcessed]), "finished", FALSE)

\* one step of one background task
TaskStep ==
    /\ \E j \in DOMAIN tasks :
          \/ PipelineStart(j)
          \/ PipelineCacheChecked(j)
          \/ PipelineFetched(j)
          \/ PipelineProgress(j)
          \/ PipelineProcessed(j)
          \/ PipelineCached(j)
          \/ SimilaritiesStart(j)
          \/ SimilaritiesDone(j)
    /\ UNCHANGED poll
    /\ JobsUnchanged

\* GET /etl/status/{job_id}
GetEtlStatus ==
    /\ \E job_id \in 1..(MaxJobs + 1) :
          poll' = [pc |-> "done", job_id |-> job_id,
                   code |-> get_etl_status(job_id).code,
                   body |-> get_etl_status(job_id).body]
    /\ UNCHANGED <<jobs, tasks>>
    /\ JobsUnchanged

InitJobs ==
    /\ now = 0
    /\ redis = EmptyRedis
    /\ last = NoLast
    /\ calls = 0
    /\ proc = [p \in {} |-> NoProc]
    /\ writes = <<>>
    /\ store = {}
    /\ runs = 0
    /\ served = 0
    /\ req = IdleReq
    /\ NoSimilarity
    /\ NoAggregates
    /\ NoJobs
    /\ NoBatches
    /\ NoTail

NextJobs ==
    \/ TriggerEtl
    \/ CalculateSimilarities
    \/ TaskStep
    \/ GetEtlStatus

SpecJobs == InitJobs /\ [][NextJobs]_vars

\* the event loop runs every background task it has been given
SpecJobsLive == InitJobs /\ [][NextJobs]_vars /\ WF_vars(TaskStep)

(************************* the ETL jobs: properties *************************)

Terminal == {"completed", "error"}

\* C26: a job enters the store with status "running"; a status "completed"
\* or "error" is never replaced; and every job of the store eventually has
\* one of these two, whatever raised inside its task.
JobRunsToAnEnd ==
    /\ [][\A j \in DOMAIN jobs' :
             IF j \in DOMAIN jobs
             THEN jobs[j].status \in Terminal => jobs'[j].status = jobs[j].status
             ELSE jobs'[j].status = "running"]_vars
    /\ \A j \in 1..MaxJobs :
          (j \in DOMAIN jobs) ~> (j \in DOMAIN jobs /\ jobs[j].status \in Terminal)

\* a task has ended after an exception inside it, its job in "error"
JobRunsToAnEndWitness ==
    \E j \in DOMAIN jobs :
        /\ tasks[j].pc = "finished"
        /\ tasks[j].raised
        /\ jobs[j].status = "error"

\* C35: the record of a completed ETL job shows the completion message of
\* the batch processor and its totals: events_processed is what it returned,
\* the sum of events_created and events_updated.
CompletedCountersKept ==
    \A j \in DOMAIN jobs :
        (tasks[j].kind = "etl" /\ jobs[j].status = "completed") =>
            /\ jobs[j].message \in {"ETL completed successfully", "No events found"}
            /\ jobs[j].events_processed
                  = jobs[j].events_created + jobs[j].events_updated

\* C27: GET /etl/status/{job_id} answers 404 for an id that no trigger has
\* stored, and for an id of the store the ETLStatus of that job's record;
\* the status of every record of the store is "running", "completed" or
\* "error" at all times.
StatusOfEveryJob ==
    /\ [](\A j \in DOMAIN jobs : jobs[j].status \in {"running"} \cup Terminal)
    /\ [][GetEtlStatus =>
            IF poll'.job_id \in DOMAIN jobs
            THEN /\ poll'.code = 200
                 /\ poll'.body = <<ETLStatus(jobs[poll'.job_id])>>
            ELSE poll'.code = 404]_vars

\* the status of the last job, completed with events processed, was
\* answered
StatusOfEveryJobWitness ==
    /\ poll.code = 200
    /\ poll.job_id = MaxJobs
    /\ poll.body[1].status = "completed"
    /\ poll.body[1].events_processed > 0

(***************************** the ETL batches ******************************)
\* A raw event is [id, payload, ok]: payload stands for the columns that
\* parse_event_data and the embedding give the event, ok for whether
\* parse_event_data accepts it. A row of the store is [id, payload].

\* the raw events of the feed; the payload of an event is its position
RawKinds == {[id |-> 1, ok |-> TRUE], [id |-> 2, ok |-> TRUE],
             [id |-> 3, ok |-> TRUE], [id |-> 3, ok |-> FALSE]}

RawInputs ==
    {[k \in 1..NumRaw |-> [id |-> kinds[k].id, payload |-> k, ok |-> kinds[k].ok]] :
        kinds \in [1..NumRaw -> RawKinds]}

ids_of(rows) == {row.id : row \in rows}

\* lines 99-116 for one parsed event: an event of existing_ids is changed in
\* place, another one becomes a new object
prepare(session, event, existing_ids) ==
    IF event.id \in existing_ids
    THEN [session EXCEPT !.dirty =
             {row \in @ : row.id # event.id}
                 \cup {[id |-> event.id, payload |-> event.payload]}]
    ELSE [session EXCEPT !.new =
             Append(@, [id |-> event.id, payload |-> event.payload])]

RECURSIVE prepare_all(_, _, _)
prepare_all(session, events, existing_ids) ==
    IF events = <<>> THEN session
    ELSE prepare_all(prepare(session, Head(events), existing_ids), Tail(events),
                     existing_ids)

\* the INSERTs of a flush break the primary key: two new objects of one id,
\* or a new object whose id is stored
conflict(session, rows) ==
    \/ \E a, b \in 1..Len(session.new) : a < b /\ session.new[a].id = session.new[b].id
    \/ \E a \in 1..Len(session.new) : session.new[a].id \in ids_of(rows)

\* what a commit that succeeds leaves in the store
flush(session, rows) ==
    {row \in rows : row.id \notin ids_of(session.dirty)}
        \cup session.dirty
        \cup {session.new[a] : a \in 1..Len(session.new)}

\* Mutant of rollback: the session keeps what the failed batch changed.
rollback_kept(session) == session

\* await session.rollback()
rollback(session) == NoSession

BatchFaults == {"none", "lookup", "commit"}

\* _process_single_batch: fault says which of its store calls raises
process_single_batch(rows, session, batch, fault) ==
    LET parsed_events == SelectSeq(batch, LAMBDA raw_event : raw_event.ok)
        parse_errors == Len(batch) - Len(parsed_events)
        existing_ids == {parsed_events[k].id : k \in 1..Len(parsed_events)}
                            \cap ids_of(rows)
        prepared == prepare_all(session, parsed_events, existing_ids)
        events_to_update == {k \in 1..Len(parsed_events) :
                                 parsed_events[k].id \in existing_ids}
        created == Cardinality({k \in 1..Len(parsed_events) :
                                    parsed_events[k].id \notin existing_ids})
    IN  IF parsed_events = <<>>
        THEN [db |-> rows, session |-> session, failed |-> FALSE,
              stats |-> [NoStats EXCEPT !.errors = parse_errors]]
        ELSE IF fault = "lookup"
        THEN [db |-> rows, session |-> rollback(session), failed |-> TRUE,
              stats |-> [NoStats EXCEPT !.errors = parse_errors + Len(batch)]]
        ELSE IF fault = "commit" \/ conflict(prepared, rows)
        THEN [db |-> rows, session |-> rollback(prepared), failed |-> TRUE,
              stats |-> [processed |-> Len(parsed_events), created |-> created,
                         updated |-> Cardinality(events_to_update),
                         errors |-> parse_errors + Len(batch)]]
        ELSE [db |-> flush(prepared, rows), session |-> NoSession, failed |-> FALSE,
              stats |-> [processed |-> Len(parsed_events), created |-> created,
                         updated |-> Cardinality(events_to_update),
                         errors |-> parse_errors]]

BatchesUnchanged ==
    UNCHANGED <<now, redis, last, calls, proc, writes, store, runs, served, req,
                simVars, aggVars, jobVars, tailVars>>

\* process_events_batch is called with the raw events of the feed
ProcessEventsBatch ==
    /\ etl.pc = "idle"
    /\ \E raw_events \in RawInputs :
          etl' = [IdleEtl EXCEPT !.pc = "running", !.raw_events = raw_events, !.i = 0]
    /\ UNCHANGED db
    /\ BatchesUnchanged

\* one turn of its loop: raw_events[i:i + batch_size]
ProcessSingleBatch ==
    /\ etl.pc = "running"
    /\ \E fault \in BatchFaults :
          LET upto == IF etl.i + batch_size < Len(etl.raw_events)
                      THEN etl.i + batch_size ELSE Len(etl.raw_events)
              batch == SubSeq(etl.raw_events, etl.i + 1, upto)
          IN  \E done \in {process_single_batch(db, etl.session, batch, fault)} :
                 /\ db' = done.db
                 /\ etl' = [etl EXCEPT
                       !.pc = IF upto = Len(etl.raw_events) THEN "done" ELSE "running",
                       !.i = upto,
                       !.session = done.session,
                       !.stats = [k \in DOMAIN NoStats |-> @[k] + done.stats[k]],
                       !.log = Append(@, [batch |-> batch, fault |-> fault,
                                          failed |-> done.failed,
                                          before |-> db, after |-> done.db])]
    /\ BatchesUnchanged

InitBatches ==
    /\ now = 0
    /\ redis = EmptyRedis
    /\ last = NoLast
    /\ calls = 0
    /\ proc = [p \in {} |-> NoProc]
    /\ writes = <<>>
    /\ store = {}
    /\ runs = 0
    /\ served = 0
    /\ req = IdleReq
    /\ NoSimilarity
    /\ NoAggregates
    /\ NoJobs
    /\ db = {[id |-> 1, payload |-> 0]}
    /\ etl = IdleEtl
    /\ NoTail

NextBatches ==
    \/ ProcessEventsBatch
    \/ ProcessSingleBatch

SpecBatches == InitBatches /\ [][NextBatches]_vars

(************************ the ETL batches: properties ***********************)

\* the rows a batch gives the store when all of it is applied: of the parsed
\* events of one id the last one, the other rows untouched
Applied(rows, batch) ==
    LET parsed == {k \in 1..Len(batch) : batch[k].ok}
        last_of(id) == CHOOSE k \in parsed :
                           batch[k].id = id /\ \A m \in parsed : batch[m].id = id => m <= k
        ids == {batch[k].id : k \in parsed}
    IN  {row \in rows : row.id \notin ids}
            \cup {[id |-> id, payload |-> batch[last_of(id)].payload] : id \in ids}

\* C28: a batch that failed left the store as it was before it, so that none
\* of its events is stored and the rows of the earlier batches are kept; a
\* batch that failed changed nothing of the batches after it either, which
\* are processed: when the call is over every batch has had its turn, and
\* each has either changed nothing or stored all its parsed events.
BatchIsAtomic ==
    /\ \A k \in 1..Len(etl.log) :
          /\ etl.log[k].failed => etl.log[k].after = etl.log[k].before
          /\ ~etl.log[k].failed =>
                etl.log[k].after = Applied(etl.log[k].before, etl.log[k].batch)
          /\ k > 1 => etl.log[k].before = etl.log[k - 1].after
    /\ etl.pc = "done" =>
          /\ Len(etl.log) = (Len(etl.raw_events) + batch_size - 1) \div batch_size
          /\ db = etl.log[Len(etl.log)].after

RECURSIVE written(_)
\* the events the batches of the log have written to the store: the parsed
\* events of the batches whose commit succeeded
written(log) ==
    IF log = <<>> THEN 0
    ELSE written(Tail(log))
         + (IF Head(log).failed THEN 0
            ELSE Len(SelectSeq(Head(log).batch, LAMBDA raw_event : raw_event.ok)))

\* C36: the counters processed, created and updated of process_events_batch
\* count events of committed batches only: created + updated, and
\* processed, are at most the number of events the job has written.
CountersCountCommitted ==
    /\ etl.stats.created + etl.stats.updated <= written(etl.log)
    /\ etl.stats.processed <= written(etl.log)

\* a call of three batches whose second failed at its commit, the first and
\* the third having stored events
BatchIsAtomicWitness ==
    /\ etl.pc = "done"
    /\ Len(etl.log) >= 3
    /\ ~etl.log[1].failed /\ etl.log[1].after # etl.log[1].before
    /\ etl.log[2].failed /\ etl.log[2].fault = "commit"
    /\ ~etl.log[3].failed /\ etl.log[3].after # etl.log[3].before

(********************** fetch_all_events_paginated **************************)
\* The events of a page are counted, not listed: all_events is the length
\* of the list the method builds.
page_limit == 100               \* limit = 100  # Batch size

\* the values of max_events callers pass; 1000 is the default
MaxEventsValues == {0, 50, 100, 250, 500, 750, 1000}

\* what fetch_events gives for one page: it raises, or the number of results
PageResponses ==
    {[raises |-> TRUE, results |-> 0], [raises |-> FALSE, results |-> 0],
     [raises |-> FALSE, results |-> 40], [raises |-> FALSE, results |-> page_limit]}

\* range((max_events // limit) + 1)
pages_allowed(max_events) == (max_events \div page_limit) + 1

FetchUnchanged ==
    UNCHANGED <<now, redis, last, calls, proc, writes, store, runs, served, req,
                simVars, aggVars, jobVars, batchVars, deleted, sched, pine, popular>>

\* the call, up to the first fetch_events
FetchAllEventsPaginated ==
    /\ fetch.pc = "idle"
    /\ \E max_events \in MaxEventsValues :
          fetch' = [IdleFetch EXCEPT !.pc = "running", !.max_events = max_events]
    /\ FetchUnchanged

\* one turn of the loop: the page has come back or fetch_events has raised
FetchPage ==
    /\ fetch.pc = "running"
    /\ fetch.page < pages_allowed(fetch.max_events)
    /\ \E response \in PageResponses :
          fetch' =
             IF response.raises
             THEN [fetch EXCEPT !.pc = "returned", !.stopped = "error"]
             ELSE IF response.results = 0
             THEN [fetch EXCEPT !.pc = "returned", !.stopped = "empty"]
             ELSE IF response.results < page_limit
             THEN [fetch EXCEPT !.pc = "returned", !.stopped = "short",
                                !.all_events = @ + response.results,
                                !.total_fetched = @ + response.results]
             ELSE [fetch EXCEPT
                      !.pc = IF fetch.page + 1 < pages_allowed(fetch.max_events)
                             THEN "running" ELSE "returned",
                      !.stopped = IF fetch.page + 1 < pages_allowed(fetch.max_events)
                                  THEN "none" ELSE "last",
                      !.page = @ + 1,
                      !.all_events = @ + response.results,
                      !.total_fetched = @ + response.results]
    /\ FetchUnchanged

\* the list has gone to the caller
FetchReturn ==
    /\ fetch.pc = "returned"
    /\ fetch' = IdleFetch
    /\ FetchUnchanged

InitFetch ==
    /\ now = 0
    /\ redis = EmptyRedis
    /\ last = NoLast
    /\ calls = 0
    /\ proc = [p \in {} |-> NoProc]
    /\ writes = <<>>
    /\ store = {}
    /\ runs = 0
    /\ served = 0
    /\ req = IdleReq
    /\ NoSimilarity
    /\ NoRest

NextFetch ==
    \/ FetchAllEventsPaginated
    \/ FetchPage
    \/ FetchReturn

SpecFetch == InitFetch /\ [][NextFetch]_vars

\* C31: the list fetch_all_events_paginated returns holds at most max_events
\* events, and the call has stopped for one of the four reasons.
FetchAtMostMaxEvents ==
    fetch.pc = "returned" =>
        /\ fetch.stopped \in {"empty", "short", "error", "last"}
        /\ fetch.all_events <= fetch.max_events


(******************************* ETLScheduler ******************************)
\* The scheduler runs on one event loop: a coroutine runs from one await to
\* the next without interruption. asyncio.to_thread (embedding.py) needs
\* Python 3.9, where CancelledError is no Exception: the handlers of
\* _run_hourly_loop and _trigger_etl_via_api do not catch it.
MaxTasks == 3           \* loop tasks created in a behaviour
MaxTriggers == 2        \* POSTs in a behaviour

\* asyncio.create_task(self._run_hourly_loop()): scheduled, not yet run
NewTask == [pc |-> "created", must_cancel |-> FALSE]

\* Task.cancel(): CancelledError is thrown into the task at its next step
cancel(task) ==
    IF task.pc = "done" THEN task ELSE [task EXCEPT !.must_cancel = TRUE]

\* Mutant of start_hourly_etl: without the guard on is_running.
start_hourly_etl_unguarded(s) ==
    [s EXCEPT !.is_running = TRUE,
              !.tasks = Append(@, NewTask),
              !.current_task = Len(s.tasks) + 1]

\* ETLScheduler.start_hourly_etl
start_hourly_etl(s) ==
    IF s.is_running THEN s
    ELSE [s EXCEPT !.is_running = TRUE,
                   !.tasks = Append(@, NewTask),
                   !.current_task = Len(s.tasks) + 1]

\* ETLScheduler.stop_hourly_etl up to its await
stop_hourly_etl(s) ==
    IF ~s.is_running THEN s
    ELSE IF s.current_task = 0 THEN [s EXCEPT !.is_running = FALSE]
    ELSE [s EXCEPT !.is_running = FALSE,
                   !.tasks[s.current_task] = cancel(@),
                   !.stops = @ \cup {s.current_task}]

\* the step of _run_hourly_loop would send the POST
triggers_etl(s, t) ==
    /\ ~s.tasks[t].must_cancel
    /\ s.tasks[t].pc \in {"created", "sleep3600"}
    /\ s.is_running

\* ETLScheduler._run_hourly_loop with _trigger_etl_via_api, one step of task
\* t from an await to the next: the POST, the answer (ok or not), the pause
\* of 10 seconds, the pause of an hour
run_hourly_loop(s, t, ok) ==
    LET task == s.tasks[t]
        after_run == IF s.is_running THEN "sleep3600" ELSE "done"
    IN  IF task.must_cancel THEN [s EXCEPT !.tasks[t].pc = "done"]
        ELSE IF task.pc \in {"created", "sleep3600"}
        THEN IF s.is_running
             THEN [s EXCEPT !.tasks[t].pc = "post",
                            !.triggers = @ + 1,
                            !.late = @ \/ s.stopped]
             ELSE [s EXCEPT !.tasks[t].pc = "done"]
        ELSE IF task.pc = "post"
        THEN [s EXCEPT !.tasks[t].pc = IF ok THEN "sleep10" ELSE after_run]
        ELSE [s EXCEPT !.tasks[t].pc = after_run]

SchedUnchanged ==
    UNCHANGED <<now, redis, last, calls, proc, writes, store, runs, served, req,
                simVars, aggVars, jobVars, batchVars, fetch, deleted, pine, popular>>

StartHourlyEtl ==
    /\ sched.is_running \/ Len(sched.tasks) < MaxTasks
    /\ \E started \in {start_hourly_etl(sched)} :
          sched' = [started EXCEPT
                      !.stopped = FALSE,
                      !.refused = @ \/ sched.is_running,
                      !.second = @ \/ (sched.is_running
                                       /\ Len(started.tasks) > Len(sched.tasks))]
    /\ SchedUnchanged

StopHourlyEtl ==
    /\ sched' = [stop_hourly_etl(sched) EXCEPT !.stopped = @ \/ sched.is_running]
    /\ SchedUnchanged

\* the task a call of stop_hourly_etl awaits has ended: the call returns
StopReturn ==
    /\ \E t \in sched.stops :
          /\ sched.tasks[t].pc = "done"
          /\ sched' = [sched EXCEPT !.stops = @ \ {t}]
    /\ SchedUnchanged

RunHourlyLoop ==
    /\ \E t \in 1..Len(sched.tasks), ok \in BOOLEAN :
          /\ sched.tasks[t].pc # "done"
          /\ triggers_etl(sched, t) => sched.triggers < MaxTriggers
          /\ sched' = run_hourly_loop(sched, t, ok)
    /\ SchedUnchanged

InitSched ==
    /\ now = 0
    /\ redis = EmptyRedis
    /\ last = NoLast
    /\ calls = 0
    /\ proc = [p \in {} |-> NoProc]
    /\ writes = <<>>
    /\ store = {}
    /\ runs = 0
    /\ served = 0
    /\ req = IdleReq
    /\ NoSimilarity
    /\ NoRest

NextSched ==
    \/ StartHourlyEtl
    \/ StopHourlyEtl
    \/ StopReturn
    \/ RunHourlyLoop

SpecSched == InitSched /\ [][NextSched]_vars

\* the loop tasks that have not ended
Unfinished == {t \in 1..Len(sched.tasks) : sched.tasks[t].pc # "done"}

\* C38: at most one loop task is active (not ended and not cancelled), and at
\* most one has not ended when no call of stop_hourly_etl is in flight; a
\* start that finds the scheduler running creates no task; from the effect
\* of stop_hourly_etl on, hence after it has returned, no POST goes out
\* until start_hourly_etl is called.
OneHourlyLoop ==
    /\ Cardinality({t \in Unfinished : ~sched.tasks[t].must_cancel}) <= 1
    /\ sched.stops = {} => Cardinality(Unfinished) <= 1
    /\ ~sched.second
    /\ ~sched.late

\* started, started again while running, triggered, stopped and returned,
\* started once more and stopped with the stop returned
OneHourlyLoopWitness ==
    /\ sched.refused
    /\ sched.triggers >= 1
    /\ Len(sched.tasks) >= 2
    /\ sched.stopped
    /\ sched.stops = {}


(************* _fetch_popular_events_from_db: simulated attendance *********)
\* The events that start on the day asked for, as create_event and the ETL
\* leave them: the length of the title and end - start in minutes (<<>>: no
\* end), which is negative for an event whose end is before its start.
TitleLengths == {0, 12, 80}
Durations == {<<>>, <<-1800>>, <<-180>>, <<0>>, <<90>>, <<600>>}
DaySizes == {0, 1, 3, 10, 12}

MixedKinds ==
    <<[title_length |-> 12, duration |-> <<90>>],
      [title_length |-> 0, duration |-> <<-1800>>],
      [title_length |-> 80, duration |-> <<600>>],
      [title_length |-> 12, duration |-> <<>>],
      [title_length |-> 80, duration |-> <<-180>>],
      [title_length |-> 0, duration |-> <<0>>]>>

\* a day of events of one kind, or of the mixed kinds in turn
DayTables ==
    {[k \in 1..n |-> [id |-> k, title_length |-> title_length, duration |-> duration]] :
        n \in DaySizes, title_length \in TitleLengths, duration \in Durations}
    \cup
    {[k \in 1..n |->
        [id |-> k,
         title_length |-> MixedKinds[((k + o) % Len(MixedKinds)) + 1].title_length,
         duration |-> MixedKinds[((k + o) % Len(MixedKinds)) + 1].duration]] :
        n \in DaySizes, o \in 0..(Len(MixedKinds) - 1)}

least(a, b) == IF a < b THEN a ELSE b

\* int(): towards zero
truncate(n, d) == IF n >= 0 THEN n \div d ELSE -((-n) \div d)

\* lines 281-289, i the index of enumerate
simulated_attendance(i, event) ==
    LET base_attendance == 1000 - (i * 100)
        title_bonus == least(event.title_length * 5, 200)
        duration_bonus ==
            IF event.duration # <<>>
            THEN least(truncate(event.duration[1] * 50, MinutesPerHour), 300)
            ELSE 0
    IN  base_attendance + title_bonus + duration_bonus

\* the query of lines 254-270 over the events of the day (the longest first,
\* an event without end before them as PostgreSQL sorts NULL, then the
\* longest title; at most 10) and the loop of lines 277-300
popular_events_of_day(rows) ==
    LET scored == [k \in 1..Len(rows) |->
                      [event |-> rows[k],
                       similarity_score |->
                          (IF rows[k].duration = <<>> THEN 100000
                           ELSE rows[k].duration[1]) * 1000 + rows[k].title_length]]
        events == prefix(sort_by_score(scored), popular_limit)
    IN  [k \in 1..Len(events) |->
            [id |-> events[k].event.id,
             attendance |-> simulated_attendance(k - 1, events[k].event),
             popularity_rank |-> (k - 1) + 1]]

FetchPopularEventsFromDb ==
    /\ popular.pc = "idle"
    /\ popular' = [popular EXCEPT !.pc = "done",
                                  !.result = popular_events_of_day(popular.rows)]
    /\ UNCHANGED <<now, redis, last, calls, proc, writes, store, runs, served, req,
                   simVars, aggVars, jobVars, batchVars, fetch, deleted, sched, pine>>

InitPopular ==
    /\ now = 0
    /\ redis = EmptyRedis
    /\ last = NoLast
    /\ calls = 0
    /\ proc = [p \in {} |-> NoProc]
    /\ writes = <<>>
    /\ store = {}
    /\ runs = 0
    /\ served = 0
    /\ req = IdleReq
    /\ NoSimilarity
    /\ NoAggregates /\ NoJobs /\ NoBatches
    /\ fetch = IdleFetch /\ deleted = {} /\ sched = NoSched /\ pine = NoPine
    /\ \E rows \in DayTables : popular = [NoPopular EXCEPT !.rows = rows]

NextPopular == FetchPopularEventsFromDb

SpecPopular == InitPopular /\ [][NextPopular]_vars

\* the ranks of the popular events are 1..n in the order of the list, n <= 10
RanksInOrder ==
    popular.pc = "done" =>
        /\ Len(popular.result) <= popular_limit
        /\ \A k \in 1..Len(popular.result) : popular.result[k].popularity_rank = k

\* C39: the simulated attendance of every popular event is a non-negative
\* integer, whatever the length of its title and its start and end, an end
\* before the start included; the ranks are 1..n in list order, n <= 10.
AttendanceNotNegative ==
    /\ RanksInOrder
    /\ popular.pc = "done" =>
          \A k \in 1..Len(popular.result) : popular.result[k].attendance \in Nat


(*************************** PineconeSyncScheduler *************************)
MaxSyncs == 3           \* runs of the sync loop that end in a behaviour

\* f"{x:.1f}" of x = 100 * n / d, in tenths: the nearest, a tie to even
round_tenths(n, d) ==
    LET q == (n * 1000) \div d
        r == (n * 1000) - q * d
    IN  IF 2 * r < d THEN q
        ELSE IF 2 * r > d THEN q + 1
        ELSE IF q % 2 = 0 THEN q ELSE q + 1

\* PineconeSyncScheduler.get_status; success_rate in tenths of a percent
\* with the number of decimals printed ("0%": 0 with none)
get_status(s) ==
    [is_running |-> s.is_running,
     total_syncs |-> s.sync_count,
     errors |-> s.error_count,
     success_rate |->
        IF s.sync_count > 0
        THEN <<round_tenths(s.sync_count - s.error_count,
                            IF s.sync_count > 1 THEN s.sync_count ELSE 1), 1>>
        ELSE <<0, 0>>]

PineUnchanged ==
    UNCHANGED <<now, redis, last, calls, proc, writes, store, runs, served, req,
                simVars, aggVars, jobVars, batchVars, fetch, deleted, sched, popular>>

\* start_periodic_sync: the loop task is created unless one is running
StartPeriodicSync ==
    /\ pine' = IF pine.is_running THEN [pine EXCEPT !.refused = TRUE]
               ELSE [pine EXCEPT !.is_running = TRUE, !.pc = "created"]
    /\ PineUnchanged

\* stop_periodic_sync with the end of the task it cancels and awaits: a run
\* in flight ends with CancelledError and is counted by neither counter
StopPeriodicSync ==
    /\ pine.is_running
    /\ pine' = [pine EXCEPT !.is_running = FALSE, !.pc = "none"]
    /\ PineUnchanged

\* _run_sync_loop from one await to the next: the POST of
\* _trigger_pinecone_sync goes out; it ends well (sync_count += 1) or raises
\* (error_count += 1), and the loop waits for the next interval
RunSyncLoop ==
    /\ pine.pc \in {"created", "post", "sleep"}
    /\ \/ /\ pine.pc \in {"created", "sleep"}
          /\ pine.succeeded + pine.failed < MaxSyncs
          /\ pine' = [pine EXCEPT !.pc = "post"]
       \/ /\ pine.pc = "post"
          /\ \E ok \in BOOLEAN :
                pine' = IF ok
                        THEN [pine EXCEPT !.pc = "sleep", !.sync_count = @ + 1,
                                          !.succeeded = @ + 1]
                        ELSE [pine EXCEPT !.pc = "sleep", !.error_count = @ + 1,
                                          !.failed = @ + 1]
    /\ PineUnchanged

GetStatus ==
    /\ pine' = [pine EXCEPT !.status = <<get_status(pine)>>]
    /\ PineUnchanged

InitPine ==
    /\ now = 0
    /\ redis = EmptyRedis
    /\ last = NoLast
    /\ calls = 0
    /\ proc = [p \in {} |-> NoProc]
    /\ writes = <<>>
    /\ store = {}
    /\ runs = 0
    /\ served = 0
    /\ req = IdleReq
    /\ NoSimilarity
    /\ NoRest

NextPine ==
    \/ StartPeriodicSync
    \/ StopPeriodicSync
    \/ RunSyncLoop
    \/ GetStatus

SpecPine == InitPine /\ [][NextPine]_vars

\* the answer of get_status is of the counters as they are now
StatusIsCurrent == pine.status = <<get_status(pine)>>

\* the success rate of the answer is between 0% and 100%
RateInRange ==
    StatusIsCurrent =>
        /\ pine.status[1].success_rate[1] >= 0
        /\ pine.status[1].success_rate[1] <= 1000

\* C40: the success rate get_status reports is between 0% and 100% and is
\* the share of the runs that ended well among the runs attempted (0% when
\* there was none), and total_syncs is the number of runs attempted.
SuccessRateIsShare ==
    StatusIsCurrent =>
        /\ RateInRange
        /\ pine.status[1].total_syncs = pine.succeeded + pine.failed
        /\ pine.succeeded + pine.failed > 0 =>
              pine.status[1].success_rate[1] =
                 round_tenths(pine.succeeded, pine.succeeded + pine.failed)
        /\ pine.succeeded + pine.failed = 0 => pine.status[1].success_rate[1] = 0

====
